---- MODULE Spec2Model ----
(***************************************************************************)
(* A model of danja/mult: the mapping configuration registry               *)
(* (MappingConfigurationManager), the mapping validator, and the two       *)
(* MultiverseDataService classes with the RDFDataLoader they drive.        *)
(*                                                                         *)
(* JavaScript objects are records whose DOMAIN is the set of own keys: an  *)
(* optional key that is not set is simply not in the DOMAIN.  A function   *)
(* valued key (transform, extractLayerId) holds the name of the function.  *)
(* IRIs are written in prefixed form ("mv:Character").  The insertion      *)
(* order of the registry Map is not represented: configurations is the     *)
(* function from registered ids to mappings.                               *)
(***************************************************************************)
EXTENDS Integers, Sequences, FiniteSets, TLC

VARIABLES
  configurations,          \* MappingConfigurationManager.configurations
  activeConfigurationId,   \* MappingConfigurationManager.activeConfigurationId
  last,                    \* the last registry call and its outcome
  service,                 \* configuration-aware MultiverseDataService fields
  rdfLoader,               \* its RDFDataLoader: dataset and mapping
  calls,                   \* the calls made on the configuration-aware service
  loads,                   \* underlying loads (loadTTL) issued, in issue order
  legacy,                  \* legacy MultiverseDataService fields
  legacyCalls,             \* the calls made on the legacy service
  legacyLoads,             \* underlying loads issued by the legacy service
  validation,              \* a mapping handed to validateMapping, and the result
  extraction               \* a dataset and a mapping handed to queryData, and the result

vars == <<configurations, activeConfigurationId, last,
          service, rdfLoader, calls, loads, legacy, legacyCalls, legacyLoads,
          validation, extraction>>

----------------------------------------------------------------------------
(* Mapping configurations                                                  *)

DEFAULT_MULTIVERSE_MAPPING ==
  [ entityTypes |-> <<
      [rdfClass |-> "mv:Character", label |-> "Character", typeId |-> "character"],
      [rdfClass |-> "mv:Movie", label |-> "Movie", typeId |-> "movie"] >>,
    properties |-> <<
      [rdfProperty |-> "rdfs:label", visualAttribute |-> "label", required |-> TRUE],
      [rdfProperty |-> "mv:hasPosition", visualAttribute |-> "position",
       required |-> TRUE, transform |-> "coords"],
      [rdfProperty |-> "mv:belongsToUniverse", visualAttribute |-> "layer",
       required |-> TRUE, transform |-> "lastSegment"],
      [rdfProperty |-> "mv:hasSubtitle", visualAttribute |-> "subtitle",
       required |-> FALSE],
      [rdfProperty |-> "mv:hasColor", visualAttribute |-> "color",
       required |-> FALSE, transform |-> "parseHex"],
      [rdfProperty |-> "mv:hasHeight", visualAttribute |-> "height",
       required |-> FALSE, transform |-> "parseFloat"] >>,
    relationships |-> <<
      [rdfPredicate |-> "mv:appearsIn", label |-> "appears in"],
      [rdfPredicate |-> "mv:cameoIn", label |-> "cameo in"] >>,
    layerGrouping |->
      [layerProperty |-> "mv:belongsToUniverse", extractLayerId |-> "lastSegment",
       layerClass |-> "mv:Universe"],
    crossLayerConnections |->
      [rdfPredicate |-> "mv:connectsTo", label |-> "connects to"],
    namespaces |->
      [ex |-> "http://example.org/multiverse/",
       mv |-> "http://example.org/multiverse/vocab/",
       rdf |-> "http://www.w3.org/1999/02/22-rdf-syntax-ns#",
       rdfs |-> "http://www.w3.org/2000/01/rdf-schema#",
       xsd |-> "http://www.w3.org/2001/XMLSchema#"] ]

EXAMPLE_ORG_CHART_MAPPING ==
  [ entityTypes |-> <<
      [rdfClass |-> "foaf:Person", label |-> "Person", typeId |-> "person"],
      [rdfClass |-> "org:Department", label |-> "Department", typeId |-> "department"] >>,
    properties |-> <<
      [rdfProperty |-> "foaf:name", visualAttribute |-> "label", required |-> TRUE],
      [rdfProperty |-> "org:hasPosition", visualAttribute |-> "position",
       required |-> TRUE, transform |-> "coords"],
      [rdfProperty |-> "org:belongsToDepartment", visualAttribute |-> "layer",
       required |-> TRUE, transform |-> "lastSegment"],
      [rdfProperty |-> "org:jobTitle", visualAttribute |-> "subtitle",
       required |-> FALSE] >>,
    relationships |-> <<
      [rdfPredicate |-> "org:reportsTo", label |-> "reports to"],
      [rdfPredicate |-> "org:collaboratesWith", label |-> "collaborates with"] >>,
    layerGrouping |->
      [layerProperty |-> "org:belongsToDepartment", extractLayerId |-> "lastSegment",
       layerClass |-> "org:Department"],
    namespaces |->
      [foaf |-> "http://xmlns.com/foaf/0.1/",
       org |-> "http://example.org/org/",
       rdf |-> "http://www.w3.org/1999/02/22-rdf-syntax-ns#",
       rdfs |-> "http://www.w3.org/2000/01/rdf-schema#"] ]

\* The valid mapping the manager's tests register.
testMapping ==
  [ entityTypes |-> <<
      [rdfClass |-> "ex:TestEntity", label |-> "Test Entity", typeId |-> "test"] >>,
    properties |-> <<
      [rdfProperty |-> "rdfs:label", visualAttribute |-> "label", required |-> TRUE],
      [rdfProperty |-> "ex:hasPosition", visualAttribute |-> "position", required |-> TRUE],
      [rdfProperty |-> "ex:inGroup", visualAttribute |-> "layer", required |-> TRUE] >>,
    relationships |-> <<
      [rdfPredicate |-> "ex:connectsTo", label |-> "connects to"] >>,
    layerGrouping |->
      [layerProperty |-> "ex:inGroup", extractLayerId |-> "lastSegment"],
    namespaces |->
      [ex |-> "http://example.org/",
       rdfs |-> "http://www.w3.org/2000/01/rdf-schema#"] ]

\* The invalid mapping the manager's tests try to register.
invalidMapping ==
  [ entityTypes |-> <<>>,
    properties |-> <<>>,
    relationships |-> <<>>,
    layerGrouping |-> [layerProperty |-> "test", extractLayerId |-> "empty"],
    namespaces |-> <<>> ]

\* The structurally incomplete object the tests try to import.
invalidConfig == [ entityTypes |-> <<>> ]

----------------------------------------------------------------------------
(* validateMapping                                                         *)

\* A check that accepts any rule for the attribute, required or not.
HasRequired_anyRule(mapping, attribute) ==
  \E i \in 1..Len(mapping.properties) :
     mapping.properties[i].visualAttribute = attribute

\* Array.prototype.some over properties: a required rule for the attribute.
HasRequired(mapping, attribute) ==
  \E i \in 1..Len(mapping.properties) :
     /\ mapping.properties[i].visualAttribute = attribute
     /\ "required" \in DOMAIN mapping.properties[i]
     /\ mapping.properties[i].required

typeIdsOf(mapping) ==
  [i \in 1..Len(mapping.entityTypes) |-> mapping.entityTypes[i].typeId]

\* A validator that returns after the first violation it finds.
validateMapping_stopsAtFirst(mapping) ==
  IF "properties" \notin DOMAIN mapping \/ "entityTypes" \notin DOMAIN mapping
  THEN [threw |-> TRUE, errors |-> <<>>]
  ELSE
    LET typeIds == typeIdsOf(mapping)
        uniqueTypeIds == {typeIds[i] : i \in 1..Len(typeIds)}
        all ==
          (IF Len(mapping.entityTypes) = 0
             THEN <<"At least one entity type mapping is required">> ELSE <<>>)
          \o (IF ~HasRequired(mapping, "label")
             THEN <<"A required label property mapping is needed">> ELSE <<>>)
          \o (IF ~HasRequired(mapping, "position")
             THEN <<"A required position property mapping is needed">> ELSE <<>>)
          \o (IF ~HasRequired(mapping, "layer")
             THEN <<"A required layer property mapping is needed">> ELSE <<>>)
          \o (IF Len(typeIds) # Cardinality(uniqueTypeIds)
             THEN <<"Entity type IDs must be unique">> ELSE <<>>)
          \o (IF "namespaces" \notin DOMAIN mapping \/ DOMAIN mapping.namespaces = {}
             THEN <<"At least one namespace mapping is required">> ELSE <<>>)
    IN [threw |-> FALSE, errors |-> IF Len(all) = 0 THEN all ELSE <<Head(all)>>]

\* The result is [threw, errors]: reading .some or .map of a missing key
\* raises a TypeError and no list is returned.
validateMapping(mapping) ==
  IF "properties" \notin DOMAIN mapping \/ "entityTypes" \notin DOMAIN mapping
  THEN [threw |-> TRUE, errors |-> <<>>]
  ELSE
    LET typeIds == typeIdsOf(mapping)
        uniqueTypeIds == {typeIds[i] : i \in 1..Len(typeIds)}
    IN [threw |-> FALSE,
        errors |->
          (IF Len(mapping.entityTypes) = 0
             THEN <<"At least one entity type mapping is required">> ELSE <<>>)
          \o (IF ~HasRequired(mapping, "label")
             THEN <<"A required label property mapping is needed">> ELSE <<>>)
          \o (IF ~HasRequired(mapping, "position")
             THEN <<"A required position property mapping is needed">> ELSE <<>>)
          \o (IF ~HasRequired(mapping, "layer")
             THEN <<"A required layer property mapping is needed">> ELSE <<>>)
          \o (IF Len(typeIds) # Cardinality(uniqueTypeIds)
             THEN <<"Entity type IDs must be unique">> ELSE <<>>)
          \o (IF "namespaces" \notin DOMAIN mapping \/ DOMAIN mapping.namespaces = {}
             THEN <<"At least one namespace mapping is required">> ELSE <<>>)]

----------------------------------------------------------------------------
(* JSON.stringify / JSON.parse                                             *)

DropKey(object, key) == [k \in DOMAIN object \ {key} |-> object[k]]

\* A serialization that also loses the required flag of the property rules.
StripFunctions_dropsRequired(value) ==
  [k \in DOMAIN value |->
     CASE k = "properties" ->
            [i \in 1..Len(value.properties) |->
               DropKey(DropKey(value.properties[i], "transform"), "required")]
       [] k = "layerGrouping" -> DropKey(value.layerGrouping, "extractLayerId")
       [] OTHER -> value[k]]

\* What JSON.stringify keeps of a mapping: function-valued keys are omitted.
StripFunctions(value) ==
  [k \in DOMAIN value |->
     CASE k = "properties" ->
            [i \in 1..Len(value.properties) |-> DropKey(value.properties[i], "transform")]
       [] k = "layerGrouping" -> DropKey(value.layerGrouping, "extractLayerId")
       [] OTHER -> value[k]]

\* A string is a record with the key "string"; doc is the document it spells.
JSONstringify(value) ==
  [string |-> TRUE, wellFormed |-> TRUE, doc |-> StripFunctions(value)]

JSONparse(text) ==
  IF text.wellFormed THEN [threw |-> FALSE, value |-> text.doc]
                     ELSE [threw |-> TRUE, value |-> <<>>]

malformedText == [string |-> TRUE, wellFormed |-> FALSE]

----------------------------------------------------------------------------
(* MappingConfigurationManager                                             *)

EmptyMap == [k \in {} |-> k]
MapHas(map, key) == key \in DOMAIN map
MapSet(map, key, value) ==
  [k \in DOMAIN map \cup {key} |-> IF k = key THEN value ELSE map[k]]
MapDelete(map, key) == [k \in DOMAIN map \ {key} |-> map[k]]

\* A registerConfiguration that keeps the configuration an id already has.
registerConfiguration_keepsExisting(configs, id, mapping) ==
  LET validationErrors == validateMapping(mapping)
  IN IF validationErrors.threw
       THEN [threw |-> TRUE, error |-> "TypeError", configurations |-> configs]
       ELSE IF Len(validationErrors.errors) > 0
         THEN [threw |-> TRUE, error |-> "Invalid mapping configuration",
               configurations |-> configs]
         ELSE [threw |-> FALSE, error |-> "none",
               configurations |-> IF MapHas(configs, id) THEN configs
                                  ELSE MapSet(configs, id, mapping)]

\* A registerConfiguration that stores the mapping without validating it.
registerConfiguration_unvalidated(configs, id, mapping) ==
  [threw |-> FALSE, error |-> "none", configurations |-> MapSet(configs, id, mapping)]

\* A registerConfiguration that stores the mapping before it validates it.
registerConfiguration_storesFirst(configs, id, mapping) ==
  LET validationErrors == validateMapping(mapping)
  IN [threw |-> validationErrors.threw \/ Len(validationErrors.errors) > 0,
      error |-> IF validationErrors.threw THEN "TypeError"
                ELSE IF Len(validationErrors.errors) > 0
                  THEN "Invalid mapping configuration" ELSE "none",
      configurations |-> MapSet(configs, id, mapping)]

\* registerConfiguration on the map configs: [threw, error, configurations].
\* The TypeError of validateMapping passes through; a non-empty error list
\* is thrown as Error('Invalid mapping configuration for ...').
registerConfiguration(configs, id, mapping) ==
  LET validationErrors == validateMapping(mapping)
  IN IF validationErrors.threw
       THEN [threw |-> TRUE, error |-> "TypeError", configurations |-> configs]
       ELSE IF Len(validationErrors.errors) > 0
         THEN [threw |-> TRUE, error |-> "Invalid mapping configuration",
               configurations |-> configs]
         ELSE [threw |-> FALSE, error |-> "none",
               configurations |-> MapSet(configs, id, mapping)]

\* The constructor registers the three built-in configurations.
constructor ==
  LET c1 == registerConfiguration(EmptyMap, "default", DEFAULT_MULTIVERSE_MAPPING)
      c2 == registerConfiguration(c1.configurations, "multiverse", DEFAULT_MULTIVERSE_MAPPING)
      c3 == registerConfiguration(c2.configurations, "orgchart", EXAMPLE_ORG_CHART_MAPPING)
  IN [configurations |-> c3.configurations, activeConfigurationId |-> "default"]

getConfiguration(id) ==
  IF MapHas(configurations, id) THEN configurations[id] ELSE [null |-> TRUE]

getActiveConfiguration ==
  IF MapHas(configurations, activeConfigurationId)
    THEN configurations[activeConfigurationId]
    ELSE DEFAULT_MULTIVERSE_MAPPING

listConfigurationIds == DOMAIN configurations

\* The registry as a call finds it.
Pre == [configurations |-> configurations,
        activeConfigurationId |-> activeConfigurationId]

isValidMappingStructure(config) ==
  /\ "entityTypes" \in DOMAIN config
  /\ "properties" \in DOMAIN config
  /\ "relationships" \in DOMAIN config
  /\ "layerGrouping" \in DOMAIN config
  /\ "namespaces" \in DOMAIN config

Register(id, mapping) ==
  LET r == registerConfiguration(configurations, id, mapping)
  IN /\ configurations' = r.configurations
     /\ UNCHANGED activeConfigurationId
     /\ last' = [pre |-> Pre, op |-> "register", id |-> id, mapping |-> mapping,
                 outcome |-> IF r.threw THEN "throw" ELSE "ok", error |-> r.error]

\* A loadConfigurationFromJSON that stores the parsed object before the
\* structure check and the validation.
loadConfigurationFromJSON_storesFirst(id, jsonConfig) ==
  LET parsed == IF "string" \in DOMAIN jsonConfig
                  THEN JSONparse(jsonConfig)
                  ELSE [threw |-> FALSE, value |-> jsonConfig]
      r == IF parsed.threw
             THEN [threw |-> TRUE, configurations |-> configurations]
             ELSE IF ~isValidMappingStructure(parsed.value)
               THEN [threw |-> TRUE,
                     configurations |-> MapSet(configurations, id, parsed.value)]
               ELSE registerConfiguration_storesFirst(configurations, id, parsed.value)
  IN /\ configurations' = r.configurations
     /\ UNCHANGED activeConfigurationId
     /\ last' = [pre |-> Pre, op |-> "import", id |-> id, jsonConfig |-> jsonConfig,
                 outcome |-> IF r.threw THEN "throw" ELSE "ok",
                 error |-> IF r.threw THEN "Failed to load configuration" ELSE "none"]

\* Every error of the try block is thrown again as
\* Error('Failed to load configuration ...').
loadConfigurationFromJSON(id, jsonConfig) ==
  LET parsed == IF "string" \in DOMAIN jsonConfig
                  THEN JSONparse(jsonConfig)
                  ELSE [threw |-> FALSE, value |-> jsonConfig]
      r == IF parsed.threw \/ ~isValidMappingStructure(parsed.value)
             THEN [threw |-> TRUE, configurations |-> configurations]
             ELSE registerConfiguration(configurations, id, parsed.value)
  IN /\ configurations' = r.configurations
     /\ UNCHANGED activeConfigurationId
     /\ last' = [pre |-> Pre, op |-> "import", id |-> id, jsonConfig |-> jsonConfig,
                 outcome |-> IF r.threw THEN "throw" ELSE "ok",
                 error |-> IF r.threw THEN "Failed to load configuration" ELSE "none"]

\* exportConfiguration on the map configs: the JSON text, or null.
exportConfiguration(configs, id) ==
  IF MapHas(configs, id) THEN JSONstringify(configs[id]) ELSE [null |-> TRUE]

\* A setActiveConfiguration without the has(id) check.
setActiveConfiguration_unchecked(id) ==
  /\ activeConfigurationId' = id
  /\ UNCHANGED configurations
  /\ last' = [pre |-> Pre, op |-> "setActive", id |-> id, outcome |-> "ok"]

setActiveConfiguration(id) ==
  IF ~MapHas(configurations, id)
    THEN /\ UNCHANGED <<configurations, activeConfigurationId>>
         /\ last' = [pre |-> Pre, op |-> "setActive", id |-> id, outcome |-> "throw"]
    ELSE /\ activeConfigurationId' = id
         /\ UNCHANGED configurations
         /\ last' = [pre |-> Pre, op |-> "setActive", id |-> id, outcome |-> "ok"]

\* A removeConfiguration without the guard on 'default'.
removeConfiguration_unguarded(id) ==
  /\ activeConfigurationId' =
       IF activeConfigurationId = id THEN "default" ELSE activeConfigurationId
  /\ configurations' = MapDelete(configurations, id)
  /\ last' = [pre |-> Pre, op |-> "remove", id |-> id, outcome |-> "ok",
              ret |-> MapHas(configurations, id)]

\* A removeConfiguration that always reports true.
removeConfiguration_returnsTrue(id) ==
  IF id = "default"
    THEN /\ UNCHANGED <<configurations, activeConfigurationId>>
         /\ last' = [pre |-> Pre, op |-> "remove", id |-> id, outcome |-> "throw"]
    ELSE /\ activeConfigurationId' =
              IF activeConfigurationId = id THEN "default" ELSE activeConfigurationId
         /\ configurations' = MapDelete(configurations, id)
         /\ last' = [pre |-> Pre, op |-> "remove", id |-> id, outcome |-> "ok",
                     ret |-> TRUE]

\* A removeConfiguration that leaves the active id alone.
removeConfiguration_keepsActive(id) ==
  IF id = "default"
    THEN /\ UNCHANGED <<configurations, activeConfigurationId>>
         /\ last' = [pre |-> Pre, op |-> "remove", id |-> id, outcome |-> "throw"]
    ELSE /\ UNCHANGED activeConfigurationId
         /\ configurations' = MapDelete(configurations, id)
         /\ last' = [pre |-> Pre, op |-> "remove", id |-> id, outcome |-> "ok",
                     ret |-> MapHas(configurations, id)]

removeConfiguration(id) ==
  IF id = "default"
    THEN /\ UNCHANGED <<configurations, activeConfigurationId>>
         /\ last' = [pre |-> Pre, op |-> "remove", id |-> id, outcome |-> "throw"]
    ELSE /\ activeConfigurationId' =
              IF activeConfigurationId = id THEN "default" ELSE activeConfigurationId
         /\ configurations' = MapDelete(configurations, id)
         /\ last' = [pre |-> Pre, op |-> "remove", id |-> id, outcome |-> "ok",
                     ret |-> MapHas(configurations, id)]

\* A cloneConfiguration that clones the built-in default when the source is
\* not registered.
cloneConfiguration_fallsBack(sourceId, newId) ==
  LET sourceConfig == IF MapHas(configurations, sourceId)
                        THEN configurations[sourceId]
                        ELSE DEFAULT_MULTIVERSE_MAPPING
      clonedConfig == JSONparse(JSONstringify(sourceConfig)).value
      r == registerConfiguration(configurations, newId, clonedConfig)
  IN /\ configurations' = r.configurations
     /\ UNCHANGED activeConfigurationId
     /\ last' = [pre |-> Pre, op |-> "clone", id |-> sourceId, newId |-> newId,
                 outcome |-> IF r.threw THEN "throw" ELSE "ok", error |-> r.error]

cloneConfiguration(sourceId, newId) ==
  IF ~MapHas(configurations, sourceId)
    THEN /\ UNCHANGED <<configurations, activeConfigurationId>>
         /\ last' = [pre |-> Pre, op |-> "clone", id |-> sourceId, newId |-> newId,
                     outcome |-> "throw", error |-> "Source configuration not found"]
    ELSE LET sourceConfig == configurations[sourceId]
             clonedConfig == JSONparse(JSONstringify(sourceConfig)).value
             r == registerConfiguration(configurations, newId, clonedConfig)
         IN /\ configurations' = r.configurations
            /\ UNCHANGED activeConfigurationId
            /\ last' = [pre |-> Pre, op |-> "clone", id |-> sourceId, newId |-> newId,
                        outcome |-> IF r.threw THEN "throw" ELSE "ok",
                        error |-> r.error]

\* A reset without configurations.clear().
reset_withoutClear ==
  /\ configurations' =
       MapSet(MapSet(MapSet(configurations, "default", DEFAULT_MULTIVERSE_MAPPING),
                     "multiverse", DEFAULT_MULTIVERSE_MAPPING),
              "orgchart", EXAMPLE_ORG_CHART_MAPPING)
  /\ activeConfigurationId' = "default"
  /\ last' = [pre |-> Pre, op |-> "reset", outcome |-> "ok"]

reset ==
  /\ configurations' =
       MapSet(MapSet(MapSet(EmptyMap, "default", DEFAULT_MULTIVERSE_MAPPING),
                     "multiverse", DEFAULT_MULTIVERSE_MAPPING),
              "orgchart", EXAMPLE_ORG_CHART_MAPPING)
  /\ activeConfigurationId' = "default"
  /\ last' = [pre |-> Pre, op |-> "reset", outcome |-> "ok"]

----------------------------------------------------------------------------
(* Inputs of the registry operations                                       *)

\* Ids the calls name.  Ids a call writes to (register, import, clone
\* target) are the protected id and one id that is not built in.
Ids == {"default", "multiverse", "orgchart", "test"}
WriteIds == {"default", "test"}

\* invalidConfig is a value without a properties field.
InputMappings == {DEFAULT_MULTIVERSE_MAPPING, testMapping, invalidMapping, invalidConfig}

InputJSON ==
  {JSONstringify(testMapping), JSONstringify(invalidMapping), malformedText, invalidConfig}

\* The texts exportConfiguration returns for the registered configurations.
Exported == {exportConfiguration(configurations, id) : id \in listConfigurationIds}

----------------------------------------------------------------------------
(* Specification of the registry                                           *)

Null == [null |-> TRUE]

InitService ==
  /\ service = [cachedData |-> Null, isLoading |-> FALSE]
  /\ rdfLoader = [dataset |-> Null, mapping |-> DEFAULT_MULTIVERSE_MAPPING]
  /\ calls = <<>>
  /\ loads = <<>>

InitLegacy ==
  /\ legacy = [cachedData |-> Null, isLoading |-> FALSE, dataset |-> Null,
               cachedBy |-> 0]
  /\ legacyCalls = <<>>
  /\ legacyLoads = <<>>

InitRegistry ==
  /\ configurations = constructor.configurations
  /\ activeConfigurationId = constructor.activeConfigurationId
  /\ last = [pre |-> [configurations |-> EmptyMap, activeConfigurationId |-> "default"],
             op |-> "constructor", outcome |-> "ok"]

\* No mapping has been handed to validateMapping, no dataset to queryData.
InitIdle ==
  /\ validation = [pc |-> "idle"]
  /\ extraction = [pc |-> "idle"]

Init == InitRegistry /\ InitService /\ InitLegacy /\ InitIdle

otherThanRegistry == <<service, rdfLoader, calls, loads, legacy, legacyCalls, legacyLoads,
                       validation, extraction>>

Next ==
  \/ \E id \in WriteIds, mapping \in InputMappings :
       Register(id, mapping) /\ UNCHANGED otherThanRegistry
  \/ \E id \in WriteIds, jsonConfig \in InputJSON \cup Exported :
       loadConfigurationFromJSON(id, jsonConfig) /\ UNCHANGED otherThanRegistry
  \/ \E id \in Ids : setActiveConfiguration(id) /\ UNCHANGED otherThanRegistry
  \/ \E id \in Ids : removeConfiguration(id) /\ UNCHANGED otherThanRegistry
  \/ \E sourceId \in Ids, newId \in WriteIds :
       cloneConfiguration(sourceId, newId) /\ UNCHANGED otherThanRegistry
  \/ reset /\ UNCHANGED otherThanRegistry

Spec == Init /\ [][Next]_vars

----------------------------------------------------------------------------
(* JavaScript strings and numbers                                          *)

\* The strings the datasets below use as literals and as IRIs that a
\* transform takes apart, each with its sequence of characters.
Spelling ==
     "" :> <<>>
  @@ "u1" :> <<"u", "1">>
  @@ "u2" :> <<"u", "2">>
  @@ "ex/u1" :> <<"e", "x", "/", "u", "1">>
  @@ "ex/u2" :> <<"e", "x", "/", "u", "2">>
  @@ "ex/" :> <<"e", "x", "/">>
  @@ "d1" :> <<"d", "1">>
  @@ "ex/d1" :> <<"e", "x", "/", "d", "1">>
  @@ "1,2,3" :> <<"1", ",", "2", ",", "3">>
  @@ "-6,0,12" :> <<"-", "6", ",", "0", ",", "1", "2">>
  @@ "1,2" :> <<"1", ",", "2">>
  @@ "1,2,3,4" :> <<"1", ",", "2", ",", "3", ",", "4">>
  @@ "1,a,3" :> <<"1", ",", "a", ",", "3">>
  @@ "ff" :> <<"f", "f">>
  @@ "0" :> <<"0">>
  @@ "7" :> <<"7">>
  @@ "zz" :> <<"z", "z">>

Spell(value) == Spelling[value]
Unspell(chars) == CHOOSE value \in DOMAIN Spelling : Spelling[value] = chars

\* JavaScript values that are not strings: a number n, NaN and undefined.
Num(n) == [number |-> n]
NaN == [nan |-> TRUE]
undefined == [undefined |-> TRUE]

\* String.prototype.split(separator) on a sequence of characters.
RECURSIVE split(_, _)
split(chars, separator) ==
  IF \A i \in 1..Len(chars) : chars[i] # separator
    THEN <<chars>>
    ELSE LET first == CHOOSE i \in 1..Len(chars) :
                        /\ chars[i] = separator
                        /\ \A j \in 1..(i - 1) : chars[j] # separator
         IN <<SubSeq(chars, 1, first - 1)>>
              \o split(SubSeq(chars, first + 1, Len(chars)), separator)

DigitValue ==
  "0" :> 0 @@ "1" :> 1 @@ "2" :> 2 @@ "3" :> 3 @@ "4" :> 4 @@ "5" :> 5 @@ "6" :> 6
  @@ "7" :> 7 @@ "8" :> 8 @@ "9" :> 9 @@ "a" :> 10 @@ "b" :> 11 @@ "c" :> 12
  @@ "d" :> 13 @@ "e" :> 14 @@ "f" :> 15

DecimalDigits == {"0", "1", "2", "3", "4", "5", "6", "7", "8", "9"}

\* The value of a sequence of digits in the given radix.
RECURSIVE DigitsValue(_, _)
DigitsValue(chars, radix) ==
  IF chars = <<>> THEN 0
  ELSE DigitsValue(SubSeq(chars, 1, Len(chars) - 1), radix) * radix
         + DigitValue[chars[Len(chars)]]

\* The longest prefix of chars made of the given digits.
RECURSIVE DigitPrefix(_, _)
DigitPrefix(chars, digits) ==
  IF chars = <<>> \/ Head(chars) \notin digits THEN <<>>
  ELSE <<Head(chars)>> \o DigitPrefix(Tail(chars), digits)

\* Number(string) for strings of digits with an optional sign: the empty
\* string is 0, anything that is not a numeral is NaN.
Number(chars) ==
  IF chars = <<>> THEN Num(0)
  ELSE IF \A i \in 1..Len(chars) : chars[i] \in DecimalDigits
    THEN Num(DigitsValue(chars, 10))
  ELSE IF /\ Head(chars) = "-" /\ Len(chars) > 1
          /\ \A i \in 2..Len(chars) : chars[i] \in DecimalDigits
    THEN Num(0 - DigitsValue(Tail(chars), 10))
  ELSE NaN

\* parseInt(string, 16) and parseFloat(string) for unsigned numerals without
\* a fraction: the value of the leading digits, NaN when there is none.
parseInt16(chars) ==
  LET prefix == DigitPrefix(chars, DOMAIN DigitValue)
  IN IF prefix = <<>> THEN NaN ELSE Num(DigitsValue(prefix, 16))

parseFloat(chars) ==
  LET prefix == DigitPrefix(chars, DecimalDigits)
  IN IF prefix = <<>> THEN NaN ELSE Num(DigitsValue(prefix, 10))

\* coords[k] of a JavaScript array: undefined beyond its length.
At(array, k) == IF k <= Len(array) THEN array[k] ELSE undefined

\* Array.prototype.map(Number) over the parts of a split.
MapNumber(parts) == [k \in 1..Len(parts) |-> Number(parts[k])]

\* The transform and extractLayerId functions, by name, applied to a string:
\* [threw, typeof, value].
\*   coords        value => { coords = value.split(',').map(Number);
\*                            return {x: coords[0], y: coords[1], z: coords[2]} }
\*   lastSegment   value => value.split('/').pop() || ''
\*   parseHex      value => parseInt(value, 16)
\*   parseFloat    value => parseFloat(value)
\*   empty         () => ''
\*   coordsOrThrow a caller's transform that throws unless the value is three
\*                 numbers
Transform(name, value) ==
  LET coords == MapNumber(split(Spell(value), ","))
      position == [x |-> At(coords, 1), y |-> At(coords, 2), z |-> At(coords, 3)]
      segments == split(Spell(value), "/")
  IN CASE name = "coords" ->
            [threw |-> FALSE, typeof |-> "object", value |-> position]
       [] name = "lastSegment" ->
            [threw |-> FALSE, typeof |-> "string",
             value |-> Unspell(segments[Len(segments)])]
       [] name = "parseHex" ->
            [threw |-> FALSE, typeof |-> "number", value |-> parseInt16(Spell(value))]
       [] name = "parseFloat" ->
            [threw |-> FALSE, typeof |-> "number", value |-> parseFloat(Spell(value))]
       [] name = "empty" ->
            [threw |-> FALSE, typeof |-> "string", value |-> ""]
       [] name = "coordsOrThrow" ->
            IF Len(coords) = 3 /\ \A k \in 1..3 : coords[k] # NaN
              THEN [threw |-> FALSE, typeof |-> "object", value |-> position]
              ELSE [threw |-> TRUE, typeof |-> "undefined", value |-> undefined]

----------------------------------------------------------------------------
(* RDFDataLoader: the extraction                                           *)
(*                                                                         *)
(* A loader is [dataset, mapping]; a dataset is null or [source, quads],   *)
(* quads being the statements [subject, predicate, object] in iteration    *)
(* order.  A function that can throw returns a record with a threw field.  *)

rdfType == "rdf:type"

\* getPropertyValue: the object of the first matching quad, or null
\* (found is FALSE).
getPropertyValue(loader, subject, property) ==
  LET quads == loader.dataset.quads
      matches == {i \in 1..Len(quads) :
                    quads[i].subject = subject /\ quads[i].predicate = property}
  IN IF matches = {}
       THEN [found |-> FALSE, value |-> ""]
       ELSE [found |-> TRUE,
             value |-> quads[CHOOSE i \in matches : \A j \in matches : i <= j].object]

\* The value a property mapping yields for a raw value: the transform's
\* result, or the raw string.
transformedValue(propMapping, propertyValue) ==
  IF "transform" \in DOMAIN propMapping
    THEN Transform(propMapping.transform, propertyValue)
    ELSE [threw |-> FALSE, typeof |-> "string", value |-> propertyValue]

IsRequired(propMapping) ==
  "required" \in DOMAIN propMapping /\ propMapping.required

\* The switch of buildEntityFromRDF on visualAttribute.
assignEntityAttribute(node, propMapping, propertyValue, transformed) ==
  CASE propMapping.visualAttribute = "label" -> MapSet(node, "label", transformed.value)
    [] propMapping.visualAttribute = "position" ->
         IF transformed.typeof = "object" /\ transformed.value.x # undefined
           THEN MapSet(MapSet(MapSet(node, "x", transformed.value.x),
                              "y", transformed.value.y), "z", transformed.value.z)
           ELSE LET coords == MapNumber(split(Spell(propertyValue), ","))
                IN IF Len(coords) = 3
                     THEN MapSet(MapSet(MapSet(node, "x", coords[1]),
                                        "y", coords[2]), "z", coords[3])
                     ELSE node
    [] propMapping.visualAttribute = "layer" -> MapSet(node, "layer", transformed.value)
    [] propMapping.visualAttribute = "subtitle" ->
         MapSet(node, "subtitle", transformed.value)
    [] OTHER ->
         MapSet(node, "properties",
                MapSet(node.properties, propMapping.rdfProperty, transformed.value))

\* The loop of buildEntityFromRDF over mapping.properties, from rule i on:
\* acc is [node, requiredProps, threw].
RECURSIVE buildEntityProperties(_, _, _, _)
buildEntityProperties(loader, entityUri, acc, i) ==
  IF acc.threw \/ i > Len(loader.mapping.properties) THEN acc
  ELSE
    LET propMapping == loader.mapping.properties[i]
        found == getPropertyValue(loader, entityUri, propMapping.rdfProperty)
        truthy == found.found /\ found.value # ""
    IN IF ~truthy /\ IsRequired(propMapping)
         THEN buildEntityProperties(loader, entityUri,
                [acc EXCEPT !.requiredProps = Append(@, propMapping.rdfProperty)], i + 1)
       ELSE IF ~truthy
         THEN buildEntityProperties(loader, entityUri, acc, i + 1)
       ELSE
         LET transformed == transformedValue(propMapping, found.value)
         IN IF transformed.threw
              THEN [acc EXCEPT !.threw = TRUE]
              ELSE buildEntityProperties(loader, entityUri,
                     [acc EXCEPT !.node = assignEntityAttribute(@, propMapping,
                                                                found.value, transformed)],
                     i + 1)

\* node.key === undefined, for a key never assigned or assigned undefined.
IsUndefined(node, key) == key \notin DOMAIN node \/ node[key] = undefined

\* A buildEntityFromRDF that throws when a required property is missing.
buildEntityFromRDF_throwsOnMissing(loader, entityUri, typeId) ==
  LET start == [node |-> [id |-> entityUri, type |-> typeId, properties |-> EmptyMap],
                requiredProps |-> <<>>, threw |-> FALSE]
      end == buildEntityProperties(loader, entityUri, start, 1)
      node == end.node
  IN IF end.threw \/ Len(end.requiredProps) > 0
       THEN [threw |-> TRUE, node |-> [null |-> TRUE]]
     ELSE IF \/ "label" \notin DOMAIN node \/ node.label = ""
             \/ IsUndefined(node, "x") \/ IsUndefined(node, "y") \/ IsUndefined(node, "z")
             \/ "layer" \notin DOMAIN node \/ node.layer = ""
       THEN [threw |-> FALSE, node |-> [null |-> TRUE]]
     ELSE [threw |-> FALSE, node |-> node]

\* buildEntityFromRDF: [threw, node], node being null when the entity is
\* dropped.
buildEntityFromRDF(loader, entityUri, typeId) ==
  LET start == [node |-> [id |-> entityUri, type |-> typeId, properties |-> EmptyMap],
                requiredProps |-> <<>>, threw |-> FALSE]
      end == buildEntityProperties(loader, entityUri, start, 1)
      node == end.node
  IN IF end.threw THEN [threw |-> TRUE, node |-> [null |-> TRUE]]
     ELSE IF Len(end.requiredProps) > 0 THEN [threw |-> FALSE, node |-> [null |-> TRUE]]
     ELSE IF \/ "label" \notin DOMAIN node \/ node.label = ""
             \/ IsUndefined(node, "x") \/ IsUndefined(node, "y") \/ IsUndefined(node, "z")
             \/ "layer" \notin DOMAIN node \/ node.layer = ""
       THEN [threw |-> FALSE, node |-> [null |-> TRUE]]
     ELSE [threw |-> FALSE, node |-> node]

\* entityTypeMap: rdfClass to typeId, a later entry for a class replacing an
\* earlier one.
entityTypeMap(mapping) ==
  [rdfClass \in {mapping.entityTypes[i].rdfClass : i \in 1..Len(mapping.entityTypes)} |->
     mapping.entityTypes[
       CHOOSE i \in 1..Len(mapping.entityTypes) :
         /\ mapping.entityTypes[i].rdfClass = rdfClass
         /\ \A j \in 1..Len(mapping.entityTypes) :
              mapping.entityTypes[j].rdfClass = rdfClass => j <= i ].typeId]

\* The loop of extractEntities over the dataset, from quad q on:
\* acc is [threw, nodes].
RECURSIVE extractEntitiesFrom(_, _, _)
extractEntitiesFrom(loader, acc, q) ==
  IF acc.threw \/ q > Len(loader.dataset.quads) THEN acc
  ELSE
    LET quad == loader.dataset.quads[q]
        types == entityTypeMap(loader.mapping)
    IN IF quad.predicate = rdfType /\ quad.object \in DOMAIN types
         THEN LET built == buildEntityFromRDF(loader, quad.subject, types[quad.object])
              IN IF built.threw THEN [threw |-> TRUE, nodes |-> <<>>]
                 ELSE IF built.node = [null |-> TRUE]
                   THEN extractEntitiesFrom(loader, acc, q + 1)
                   ELSE extractEntitiesFrom(loader,
                          [acc EXCEPT !.nodes = Append(@, built.node)], q + 1)
         ELSE extractEntitiesFrom(loader, acc, q + 1)

\* A pass A that keeps one entity per subject, the first one built.
extractEntities_onePerSubject(loader) ==
  LET all == extractEntitiesFrom(loader, [threw |-> FALSE, nodes |-> <<>>], 1)
      kept == SelectSeq([i \in 1..Len(all.nodes) |-> i],
                LAMBDA i : \A j \in 1..(i - 1) : all.nodes[j].id # all.nodes[i].id)
  IN [threw |-> all.threw, nodes |-> [k \in 1..Len(kept) |-> all.nodes[kept[k]]]]

extractEntities(loader) ==
  extractEntitiesFrom(loader, [threw |-> FALSE, nodes |-> <<>>], 1)

\* A getEntityLayer that returns the layer statement's value as it stands.
getEntityLayer_rawValue(loader, entityUri) ==
  LET layerValue == getPropertyValue(loader, entityUri,
                                     loader.mapping.layerGrouping.layerProperty)
  IN [threw |-> FALSE, typeof |-> "string",
      value |-> IF layerValue.found THEN layerValue.value ELSE ""]

\* getEntityLayer: [threw, value].  A layerGrouping without extractLayerId
\* makes the call of it a TypeError.
getEntityLayer(loader, entityUri) ==
  LET layerValue == getPropertyValue(loader, entityUri,
                                     loader.mapping.layerGrouping.layerProperty)
  IN IF layerValue.found /\ layerValue.value # ""
       THEN IF "extractLayerId" \in DOMAIN loader.mapping.layerGrouping
              THEN Transform(loader.mapping.layerGrouping.extractLayerId, layerValue.value)
              ELSE [threw |-> TRUE, typeof |-> "undefined", value |-> undefined]
       ELSE [threw |-> FALSE, typeof |-> "string", value |-> ""]

\* The loop of extractRelationships, from quad q on: acc is [threw, triples].
RECURSIVE extractRelationshipsFrom(_, _, _)
extractRelationshipsFrom(loader, acc, q) ==
  IF acc.threw \/ q > Len(loader.dataset.quads) THEN acc
  ELSE
    LET quad == loader.dataset.quads[q]
        relationshipPredicates ==
          {loader.mapping.relationships[i].rdfPredicate :
             i \in 1..Len(loader.mapping.relationships)}
    IN IF quad.predicate \in relationshipPredicates
         THEN LET layer == getEntityLayer(loader, quad.subject)
              IN IF layer.threw THEN [threw |-> TRUE, triples |-> <<>>]
                 ELSE extractRelationshipsFrom(loader,
                        [acc EXCEPT !.triples =
                           Append(@, [subject |-> quad.subject,
                                      predicate |-> quad.predicate,
                                      object |-> quad.object,
                                      layer |-> layer.value])],
                        q + 1)
         ELSE extractRelationshipsFrom(loader, acc, q + 1)

extractRelationships(loader) ==
  extractRelationshipsFrom(loader, [threw |-> FALSE, triples |-> <<>>], 1)

\* The switch of extractLayers on visualAttribute.
assignLayerAttribute(layer, propMapping, transformed) ==
  CASE propMapping.visualAttribute = "label" -> MapSet(layer, "name", transformed.value)
    [] propMapping.visualAttribute = "color" -> MapSet(layer, "color", transformed.value)
    [] propMapping.visualAttribute = "height" -> MapSet(layer, "height", transformed.value)
    [] OTHER -> layer

\* The loop of extractLayers over mapping.properties for one layer subject,
\* from rule i on: acc is [layer, threw].
RECURSIVE buildLayerProperties(_, _, _, _)
buildLayerProperties(loader, layerUri, acc, i) ==
  IF acc.threw \/ i > Len(loader.mapping.properties) THEN acc
  ELSE
    LET propMapping == loader.mapping.properties[i]
        found == getPropertyValue(loader, layerUri, propMapping.rdfProperty)
    IN IF found.found /\ found.value # ""
         THEN LET transformed == transformedValue(propMapping, found.value)
              IN IF transformed.threw
                   THEN [acc EXCEPT !.threw = TRUE]
                   ELSE buildLayerProperties(loader, layerUri,
                          [acc EXCEPT !.layer =
                             assignLayerAttribute(@, propMapping, transformed)],
                          i + 1)
         ELSE buildLayerProperties(loader, layerUri, acc, i + 1)

\* value || fallback for a number: 0, NaN and undefined are falsy.
OrElse(layer, key, fallback) ==
  IF key \notin DOMAIN layer \/ layer[key] \in {Num(0), NaN, undefined}
    THEN fallback ELSE layer[key]

\* A layer key that is the subject's IRI as it stands.
generateLayerKey_rawSubject(grouping, layerUri) ==
  [threw |-> FALSE, typeof |-> "string", value |-> layerUri]

\* "Generate layer key": extractLayerId of the layer subject's IRI.
generateLayerKey(grouping, layerUri) ==
  IF "extractLayerId" \in DOMAIN grouping
    THEN Transform(grouping.extractLayerId, layerUri)
    ELSE [threw |-> TRUE, typeof |-> "undefined", value |-> undefined]

\* The loop of extractLayers over the dataset, from quad q on:
\* acc is [threw, layers].
RECURSIVE extractLayersFrom(_, _, _)
extractLayersFrom(loader, acc, q) ==
  IF acc.threw \/ q > Len(loader.dataset.quads) THEN acc
  ELSE
    LET quad == loader.dataset.quads[q]
        grouping == loader.mapping.layerGrouping
    IN IF quad.predicate = rdfType /\ quad.object = grouping.layerClass
         THEN LET built == buildLayerProperties(loader, quad.subject,
                             [layer |-> EmptyMap, threw |-> FALSE], 1)
                  layerKey == generateLayerKey(grouping, quad.subject)
              IN IF built.threw \/ layerKey.threw THEN [threw |-> TRUE, layers |-> EmptyMap]
                 ELSE IF /\ "name" \in DOMAIN built.layer /\ built.layer.name # ""
                         /\ layerKey.value # ""
                   THEN extractLayersFrom(loader,
                          [acc EXCEPT !.layers =
                             MapSet(@, layerKey.value,
                                    [name |-> built.layer.name,
                                     color |-> OrElse(built.layer, "color", Num(6710886)),
                                     height |-> OrElse(built.layer, "height", Num(0))])],
                          q + 1)
                   ELSE extractLayersFrom(loader, acc, q + 1)
         ELSE extractLayersFrom(loader, acc, q + 1)

\* An extractLayers that returns before it walks the dataset.
extractLayers_returnsEarly(loader) == [threw |-> FALSE, layers |-> EmptyMap]

extractLayers(loader) ==
  IF "layerClass" \notin DOMAIN loader.mapping.layerGrouping
    THEN [threw |-> FALSE, layers |-> EmptyMap]
    ELSE extractLayersFrom(loader, [threw |-> FALSE, layers |-> EmptyMap], 1)

\* A pass D that keeps a connection only when its target is the subject of a
\* type statement.
extractCrossLayerConnections_entitiesOnly(loader) ==
  IF "crossLayerConnections" \notin DOMAIN loader.mapping THEN <<>>
  ELSE LET quads == loader.dataset.quads
           hits == SelectSeq([i \in 1..Len(quads) |-> i],
                     LAMBDA i : /\ quads[i].predicate
                                     = loader.mapping.crossLayerConnections.rdfPredicate
                                /\ \E t \in 1..Len(quads) :
                                     /\ quads[t].predicate = "rdf:type"
                                     /\ quads[t].subject = quads[i].object)
       IN [k \in 1..Len(hits) |->
             [id |-> quads[hits[k]].subject, connectTo |-> quads[hits[k]].object]]

extractCrossLayerConnections(loader) ==
  IF "crossLayerConnections" \notin DOMAIN loader.mapping THEN <<>>
  ELSE LET quads == loader.dataset.quads
           hits == SelectSeq([i \in 1..Len(quads) |-> i],
                     LAMBDA i : quads[i].predicate
                                  = loader.mapping.crossLayerConnections.rdfPredicate)
       IN [k \in 1..Len(hits) |->
             [id |-> quads[hits[k]].subject, connectTo |-> quads[hits[k]].object]]

----------------------------------------------------------------------------
(* RDFDataLoader and the configuration-aware MultiverseDataService         *)

MaxCalls == 3

Sources == {"universe.ttl", "org.ttl"}
ServiceConfigIds == {"default", "orgchart", "nonexistent"}

Quad(subject, predicate, object) ==
  [subject |-> subject, predicate |-> predicate, object |-> object]

\* The dataset parsed from the text of a source: a universe with a character
\* and a movie, a department with a person, or a character whose universe
\* IRI ends in a slash.
Store(source) ==
  [source |-> source,
   quads |->
     IF source = "broken.ttl"
       THEN << Quad("ex:lost", "rdf:type", "mv:Character"),
               Quad("ex:lost", "rdfs:label", "Lost"),
               Quad("ex:lost", "mv:hasPosition", "1,2,3"),
               Quad("ex:lost", "mv:belongsToUniverse", "ex/") >>
     ELSE IF source = "universe.ttl"
       THEN << Quad("ex/u1", "rdf:type", "mv:Universe"),
               Quad("ex/u1", "rdfs:label", "Universe One"),
               Quad("ex/u1", "mv:hasColor", "ff"),
               Quad("ex/u1", "mv:hasHeight", "7"),
               Quad("ex:hero", "rdf:type", "mv:Character"),
               Quad("ex:hero", "rdfs:label", "Hero"),
               Quad("ex:hero", "mv:hasPosition", "1,2,3"),
               Quad("ex:hero", "mv:belongsToUniverse", "ex/u1"),
               Quad("ex:film", "rdf:type", "mv:Movie"),
               Quad("ex:film", "rdfs:label", "Film"),
               Quad("ex:film", "mv:hasPosition", "-6,0,12"),
               Quad("ex:film", "mv:belongsToUniverse", "ex/u1"),
               Quad("ex:hero", "mv:appearsIn", "ex:film"),
               Quad("ex:hero", "mv:connectsTo", "ex:film") >>
       ELSE << Quad("ex/d1", "rdf:type", "org:Department"),
               Quad("ex/d1", "foaf:name", "Department One"),
               Quad("ex:ann", "rdf:type", "foaf:Person"),
               Quad("ex:ann", "foaf:name", "Ann"),
               Quad("ex:ann", "org:hasPosition", "1,2,3"),
               Quad("ex:ann", "org:belongsToDepartment", "ex/d1"),
               Quad("ex:ann", "org:reportsTo", "ex:ann") >> ]

\* A queryData that validates the mapping before it runs the passes.
queryData_revalidates(loader) ==
  IF loader.dataset = Null
    THEN [threw |-> TRUE, error |-> "No RDF data loaded", data |-> Null]
  ELSE IF validateMapping(loader.mapping).threw
          \/ validateMapping(loader.mapping).errors # <<>>
    THEN [threw |-> TRUE, error |-> "Invalid mapping configuration", data |-> Null]
    ELSE LET nodes == extractEntities(loader)
             triples == extractRelationships(loader)
             layers == extractLayers(loader)
             sharedConnections == extractCrossLayerConnections(loader)
         IN IF nodes.threw \/ triples.threw \/ layers.threw
              THEN [threw |-> TRUE, error |-> "thrown by a pass", data |-> Null]
              ELSE [threw |-> FALSE, error |-> "none",
                    data |-> [extractedFrom |-> loader.dataset.source,
                              nodes |-> nodes.nodes,
                              triples |-> triples.triples,
                              layers |-> layers.layers,
                              sharedConnections |-> sharedConnections,
                              mappingConfig |-> loader.mapping]]

\* queryData: throws when no dataset is loaded, and when a pass throws;
\* otherwise the result of the four passes and the mapping used.
\* extractedFrom records the dataset the passes read.
queryData(loader) ==
  IF loader.dataset = Null
    THEN [threw |-> TRUE, error |-> "No RDF data loaded", data |-> Null]
    ELSE LET nodes == extractEntities(loader)
             triples == extractRelationships(loader)
             layers == extractLayers(loader)
             sharedConnections == extractCrossLayerConnections(loader)
         IN IF nodes.threw \/ triples.threw \/ layers.threw
              THEN [threw |-> TRUE, error |-> "thrown by a pass", data |-> Null]
              ELSE [threw |-> FALSE, error |-> "none",
                    data |-> [extractedFrom |-> loader.dataset.source,
                              nodes |-> nodes.nodes,
                              triples |-> triples.triples,
                              layers |-> layers.layers,
                              sharedConnections |-> sharedConnections,
                              mappingConfig |-> loader.mapping]]

\* typeof value === 'number' for a position, colour or height value.
IsNumber(value) == "number" \in DOMAIN value \/ value = NaN

validateLayers(layers) ==
  \A key \in DOMAIN layers :
    /\ layers[key].name # ""
    /\ IsNumber(layers[key].color)
    /\ IsNumber(layers[key].height)

validateNodes(nodes) ==
  \A i \in 1..Len(nodes) :
    /\ nodes[i].id # ""
    /\ nodes[i].label # ""
    /\ nodes[i].layer # ""
    /\ IsNumber(nodes[i].x) /\ IsNumber(nodes[i].y) /\ IsNumber(nodes[i].z)
    /\ nodes[i].type \in {"character", "movie"}

\* validateData: TRUE when it returns, FALSE when it throws.
validateData(data) == validateNodes(data.nodes) /\ validateLayers(data.layers)

InFlight(ls) == {j \in 1..Len(ls) : ls[j].state = "inflight"}

\* A load that clears the cache and sets the loading flag before it resolves
\* the configuration.
LoadStart_clearsFirst(op, args, mapping, svc) ==
  /\ Len(calls) < MaxCalls
  /\ IF mapping = Null
       THEN /\ service' = [svc EXCEPT !.cachedData = Null, !.isLoading = TRUE]
            /\ calls' = Append(calls, args @@ [op |-> op, pc |-> "threw",
                                               arrivedDuring |-> InFlight(loads),
                                               error |-> "ConfigurationNotFound",
                                               serviceBefore |-> service,
                                               serviceAfter |->
                                                 [svc EXCEPT !.cachedData = Null,
                                                             !.isLoading = TRUE]])
            /\ UNCHANGED <<rdfLoader, loads>>
       ELSE /\ service' = [svc EXCEPT !.cachedData = Null, !.isLoading = TRUE]
            /\ rdfLoader' = [rdfLoader EXCEPT !.mapping = mapping]
            /\ loads' = Append(loads, [source |-> args.source, call |-> Len(calls) + 1,
                                       state |-> "inflight"])
            /\ calls' = Append(calls, args @@ [op |-> op, pc |-> "loading",
                                               arrivedDuring |-> InFlight(loads),
                                               load |-> Len(loads) + 1])

\* The synchronous part of a configuration-aware load, up to the fetch that
\* loadTTL awaits: svc is the service as the entry point left it.  The call
\* record keeps the loads that were in flight when the call arrived and, for
\* a call that throws at once, the service fields before and after it.
LoadStart(op, args, mapping, svc) ==
  /\ Len(calls) < MaxCalls
  /\ IF mapping = Null
       THEN /\ service' = svc
            /\ calls' = Append(calls, args @@ [op |-> op, pc |-> "threw",
                                               arrivedDuring |-> InFlight(loads),
                                               error |-> "ConfigurationNotFound",
                                               serviceBefore |-> service,
                                               serviceAfter |-> svc])
            /\ UNCHANGED <<rdfLoader, loads>>
       ELSE /\ service' = [svc EXCEPT !.cachedData = Null, !.isLoading = TRUE]
            /\ rdfLoader' = [rdfLoader EXCEPT !.mapping = mapping]
            /\ loads' = Append(loads, [source |-> args.source, call |-> Len(calls) + 1,
                                       state |-> "inflight"])
            /\ calls' = Append(calls, args @@ [op |-> op, pc |-> "loading",
                                               arrivedDuring |-> InFlight(loads),
                                               load |-> Len(loads) + 1])

loadDataWithConfiguration(source, configurationId) ==
  LoadStart("loadDataWithConfiguration",
            [source |-> source, configurationId |-> configurationId],
            getConfiguration(configurationId), service)

loadDataWithActiveConfiguration(source) ==
  LoadStart("loadDataWithActiveConfiguration", [source |-> source],
            getActiveConfiguration, service)

loadData(source) ==
  LoadStart("loadData", [source |-> source, configurationId |-> "default"],
            getConfiguration("default"), service)

refreshDataWithConfiguration(source, configurationId) ==
  LoadStart("refreshDataWithConfiguration",
            [source |-> source, configurationId |-> configurationId],
            getConfiguration(configurationId), [service EXCEPT !.cachedData = Null])

refreshData(source) ==
  LoadStart("refreshData", [source |-> source, configurationId |-> "default"],
            getConfiguration("default"), [service EXCEPT !.cachedData = Null])

switchConfiguration(configurationId) ==
  LET mapping == getConfiguration(configurationId)
  IN /\ Len(calls) < MaxCalls
     /\ UNCHANGED loads
     /\ IF mapping = Null
          THEN /\ calls' = Append(calls, [op |-> "switchConfiguration",
                                          configurationId |-> configurationId,
                                          pc |-> "threw",
                                          error |-> "ConfigurationNotFound"])
               /\ UNCHANGED <<service, rdfLoader>>
          ELSE /\ rdfLoader' = [rdfLoader EXCEPT !.mapping = mapping]
               /\ service' = [service EXCEPT !.cachedData = Null]
               /\ calls' = Append(calls, [op |-> "switchConfiguration",
                                          configurationId |-> configurationId,
                                          pc |-> "returned"])

\* A load that assigns the cache before it validates the result.
LoadEnds_cachesFirst(c, ok) ==
  /\ calls[c].pc = "loading"
  /\ loads' = [loads EXCEPT ![calls[c].load].state = "ended"]
  /\ IF ~ok
       THEN /\ calls' = [calls EXCEPT ![c] = DropKey(@, "pc") @@
                                      [pc |-> "threw", error |-> "LoadFailed"]]
            /\ service' = [service EXCEPT !.isLoading = FALSE]
            /\ UNCHANGED rdfLoader
       ELSE \E loader \in {[rdfLoader EXCEPT !.dataset = Store(calls[c].source)]} :
            \E queried \in {queryData(loader)} :
            LET data == queried.data
            IN /\ rdfLoader' = loader
               /\ IF queried.threw
                    THEN /\ service' = [service EXCEPT !.isLoading = FALSE]
                         /\ calls' = [calls EXCEPT ![c] = DropKey(@, "pc") @@
                                        [pc |-> "threw", error |-> queried.error]]
                    ELSE IF validateData(data)
                    THEN /\ service' = [cachedData |-> data, isLoading |-> FALSE]
                         /\ calls' = [calls EXCEPT ![c] = DropKey(@, "pc") @@
                                        [pc |-> "returned", result |-> data]]
                    ELSE /\ service' = [cachedData |-> data, isLoading |-> FALSE]
                         /\ calls' = [calls EXCEPT ![c] = DropKey(@, "pc") @@
                                        [pc |-> "threw", error |-> "ResultValidationFailed",
                                         rejected |-> data]]

\* The load that call c awaits ends and the call runs to its end: loadTTL
\* throws (ok is FALSE) or sets the dataset, then queryData, validateData,
\* the cache assignment and the finally block.  The loader and the result of
\* queryData are bound once, as the code holds them in a field and a const.
\* The record of a call that validateData failed keeps the rejected result.
LoadEnds(c, ok) ==
  /\ calls[c].pc = "loading"
  /\ loads' = [loads EXCEPT ![calls[c].load].state = "ended"]
  /\ IF ~ok
       THEN /\ calls' = [calls EXCEPT ![c] = DropKey(@, "pc") @@
                                      [pc |-> "threw", error |-> "LoadFailed"]]
            /\ service' = [service EXCEPT !.isLoading = FALSE]
            /\ UNCHANGED rdfLoader
       ELSE \E loader \in {[rdfLoader EXCEPT !.dataset = Store(calls[c].source)]} :
            \E queried \in {queryData(loader)} :
            LET data == queried.data
            IN /\ rdfLoader' = loader
               /\ IF queried.threw
                    THEN /\ service' = [service EXCEPT !.isLoading = FALSE]
                         /\ calls' = [calls EXCEPT ![c] = DropKey(@, "pc") @@
                                        [pc |-> "threw", error |-> queried.error]]
                    ELSE IF validateData(data)
                    THEN /\ service' = [cachedData |-> data, isLoading |-> FALSE]
                         /\ calls' = [calls EXCEPT ![c] = DropKey(@, "pc") @@
                                        [pc |-> "returned", result |-> data]]
                    ELSE /\ service' = [service EXCEPT !.isLoading = FALSE]
                         /\ calls' = [calls EXCEPT ![c] = DropKey(@, "pc") @@
                                        [pc |-> "threw", error |-> "ResultValidationFailed",
                                         rejected |-> data]]

getCachedData == service.cachedData
isDataLoading == service.isLoading

otherThanService == <<configurations, activeConfigurationId, last,
                       legacy, legacyCalls, legacyLoads, validation, extraction>>

NextService ==
  \/ \E source \in Sources, id \in ServiceConfigIds :
       loadDataWithConfiguration(source, id) /\ UNCHANGED otherThanService
  \/ \E source \in Sources :
       loadDataWithActiveConfiguration(source) /\ UNCHANGED otherThanService
  \/ \E source \in Sources : loadData(source) /\ UNCHANGED otherThanService
  \/ \E source \in Sources, id \in ServiceConfigIds :
       refreshDataWithConfiguration(source, id) /\ UNCHANGED otherThanService
  \/ \E source \in Sources : refreshData(source) /\ UNCHANGED otherThanService
  \/ \E id \in ServiceConfigIds : switchConfiguration(id) /\ UNCHANGED otherThanService
  \/ \E c \in 1..Len(calls), ok \in BOOLEAN :
       LoadEnds(c, ok) /\ UNCHANGED otherThanService

SpecService == Init /\ [][NextService]_vars

(* The legacy MultiverseDataService (src/data/multiverse-data.ts)          *)

MaxLegacyCalls == 3

LegacySources == Sources \cup {"broken.ttl"}

\* The legacy loader's last segment of an IRI: value.split('/').pop() || ''.
legacy_lastSegment(value) ==
  LET segments == split(Spell(value), "/") IN Unspell(segments[Len(segments)])

\* buildNodeFromEntity of the legacy loader: the node, or null.
buildNodeFromEntity(dataset, entityUri, type) ==
  LET loader == [dataset |-> dataset]
      label == getPropertyValue(loader, entityUri, "rdfs:label")
      position == getPropertyValue(loader, entityUri, "mv:hasPosition")
      universe == getPropertyValue(loader, entityUri, "mv:belongsToUniverse")
      subtitle == getPropertyValue(loader, entityUri, "mv:hasSubtitle")
      coords == MapNumber(split(Spell(position.value), ","))
  IN IF label.value = "" \/ position.value = "" \/ universe.value = ""
       THEN [null |-> TRUE]
     ELSE IF Len(coords) # 3 THEN [null |-> TRUE]
     ELSE [id |-> entityUri, label |-> label.value,
           layer |-> legacy_lastSegment(universe.value),
           x |-> coords[1], y |-> coords[2], z |-> coords[3], type |-> type]
          @@ (IF subtitle.value = "" THEN EmptyMap ELSE [subtitle |-> subtitle.value])

\* extractNodes of the legacy loader, from quad q on.
RECURSIVE extractNodesFrom(_, _, _)
extractNodesFrom(dataset, nodes, q) ==
  IF q > Len(dataset.quads) THEN nodes
  ELSE
    LET quad == dataset.quads[q]
    IN IF quad.predicate = rdfType /\ quad.object \in {"mv:Character", "mv:Movie"}
         THEN LET node == buildNodeFromEntity(dataset, quad.subject,
                            IF quad.object = "mv:Character" THEN "character" ELSE "movie")
              IN extractNodesFrom(dataset,
                   IF node = [null |-> TRUE] THEN nodes ELSE Append(nodes, node), q + 1)
         ELSE extractNodesFrom(dataset, nodes, q + 1)

extractNodes(dataset) == extractNodesFrom(dataset, <<>>, 1)

\* extractTriples of the legacy loader.
extractTriples(dataset) ==
  LET quads == dataset.quads
      hits == SelectSeq([i \in 1..Len(quads) |-> i],
                LAMBDA i : quads[i].predicate \in {"mv:appearsIn", "mv:cameoIn"})
  IN [k \in 1..Len(hits) |->
        LET quad == quads[hits[k]]
            universe == getPropertyValue([dataset |-> dataset], quad.subject,
                                         "mv:belongsToUniverse")
        IN [subject |-> quad.subject, predicate |-> quad.predicate,
            object |-> quad.object,
            layer |-> IF universe.value = "" THEN ""
                      ELSE legacy_lastSegment(universe.value)]]

\* extractLayers of the legacy loader, from quad q on.
RECURSIVE legacy_extractLayersFrom(_, _, _)
legacy_extractLayersFrom(dataset, layers, q) ==
  IF q > Len(dataset.quads) THEN layers
  ELSE
    LET quad == dataset.quads[q]
        loader == [dataset |-> dataset]
        name == getPropertyValue(loader, quad.subject, "rdfs:label")
        colorStr == getPropertyValue(loader, quad.subject, "mv:hasColor")
        heightStr == getPropertyValue(loader, quad.subject, "mv:hasHeight")
    IN IF /\ quad.predicate = rdfType /\ quad.object = "mv:Universe"
          /\ name.value # "" /\ colorStr.value # "" /\ heightStr.value # ""
         THEN legacy_extractLayersFrom(dataset,
                MapSet(layers, legacy_lastSegment(quad.subject),
                       [name |-> name.value,
                        color |-> parseInt16(Spell(colorStr.value)),
                        height |-> parseFloat(Spell(heightStr.value))]),
                q + 1)
         ELSE legacy_extractLayersFrom(dataset, layers, q + 1)

\* extractSharedConnections of the legacy loader.
extractSharedConnections(dataset) ==
  LET quads == dataset.quads
      hits == SelectSeq([i \in 1..Len(quads) |-> i],
                LAMBDA i : quads[i].predicate = "mv:connectsTo")
  IN [k \in 1..Len(hits) |->
        [id |-> quads[hits[k]].subject, connectTo |-> quads[hits[k]].object]]

\* queryMultiverseData of the legacy loader: characters and movies only, and
\* no mappingConfig in the result.
queryMultiverseData(dataset) ==
  [extractedFrom |-> dataset.source,
   nodes |-> extractNodes(dataset),
   triples |-> extractTriples(dataset),
   layers |-> legacy_extractLayersFrom(dataset, EmptyMap, 1),
   sharedConnections |-> extractSharedConnections(dataset)]

\* From "this.isLoading = true" to the fetch that loadTTL awaits.  The legacy
\* record's cachedBy is the load whose result the cache holds, and a call
\* record keeps the number of loads started before the call (loadsBefore) and
\* the load its result came from (fromLoad).
legacy_beginLoad(call, svc, c) ==
  /\ legacy' = [svc EXCEPT !.isLoading = TRUE]
  /\ legacyLoads' = Append(legacyLoads, [source |-> call.source, call |-> c,
                                         state |-> "inflight"])
  /\ legacyCalls' = [k \in 1..IF c > Len(legacyCalls) THEN c ELSE Len(legacyCalls) |->
                       IF k = c THEN call @@ [pc |-> "loading",
                                              load |-> Len(legacyLoads) + 1]
                                ELSE legacyCalls[k]]

\* loadData up to its first await (or its return): svc is the service as the
\* entry point left it.
legacy_enter(op, source, svc) ==
  LET call == [op |-> op, source |-> source,
               arrivedDuring |-> InFlight(legacyLoads),
               loadsBefore |-> Len(legacyLoads)]
  IN /\ Len(legacyCalls) < MaxLegacyCalls
     /\ IF svc.cachedData # Null
          THEN /\ legacy' = svc
               /\ legacyCalls' = Append(legacyCalls,
                    call @@ [pc |-> "returned", result |-> svc.cachedData,
                             fromCache |-> TRUE, fromLoad |-> svc.cachedBy])
               /\ UNCHANGED legacyLoads
          ELSE IF svc.isLoading
            THEN /\ legacy' = svc
                 /\ legacyCalls' = Append(legacyCalls, call @@ [pc |-> "waiting"])
                 /\ UNCHANGED legacyLoads
            ELSE legacy_beginLoad(call, svc, Len(legacyCalls) + 1)

legacy_loadData(source) == legacy_enter("loadData", source, legacy)

legacy_refreshData(source) ==
  legacy_enter("refreshData", source, [legacy EXCEPT !.cachedData = Null])

\* A waiting call's timer fires and finds isLoading false: it leaves the
\* loop, returns the cached data if there is any and starts a load otherwise.
legacy_poll(c) ==
  /\ legacyCalls[c].pc = "waiting"
  /\ ~legacy.isLoading
  /\ IF legacy.cachedData # Null
       THEN /\ legacyCalls' = [legacyCalls EXCEPT ![c] = DropKey(@, "pc") @@
                 [pc |-> "returned", result |-> legacy.cachedData,
                  fromCache |-> TRUE, fromLoad |-> legacy.cachedBy]]
            /\ UNCHANGED <<legacy, legacyLoads>>
       ELSE legacy_beginLoad(DropKey(legacyCalls[c], "pc"), legacy, c)

\* The load that call c awaits ends and the call runs to its end.
legacy_loadEnds(c, ok) ==
  /\ legacyCalls[c].pc = "loading"
  /\ legacyLoads' = [legacyLoads EXCEPT ![legacyCalls[c].load].state = "ended"]
  /\ IF ~ok
       THEN /\ legacyCalls' = [legacyCalls EXCEPT ![c] = DropKey(@, "pc") @@
                                 [pc |-> "threw", error |-> "LoadFailed"]]
            /\ legacy' = [legacy EXCEPT !.isLoading = FALSE]
       ELSE LET dataset == Store(legacyCalls[c].source)
                data == queryMultiverseData(dataset)
            IN IF validateData(data)
                 THEN /\ legacy' = [cachedData |-> data, isLoading |-> FALSE,
                                    dataset |-> dataset,
                                    cachedBy |-> legacyCalls[c].load]
                      /\ legacyCalls' = [legacyCalls EXCEPT ![c] = DropKey(@, "pc") @@
                                           [pc |-> "returned", result |-> data,
                                            fromLoad |-> legacyCalls[c].load]]
                 ELSE /\ legacy' = [legacy EXCEPT !.isLoading = FALSE,
                                                  !.dataset = dataset]
                      /\ legacyCalls' = [legacyCalls EXCEPT ![c] = DropKey(@, "pc") @@
                                           [pc |-> "threw",
                                            error |-> "ResultValidationFailed",
                                            rejected |-> data]]

otherThanLegacy == <<configurations, activeConfigurationId, last,
                      service, rdfLoader, calls, loads, validation, extraction>>

NextLegacy ==
  \/ \E source \in LegacySources : legacy_loadData(source) /\ UNCHANGED otherThanLegacy
  \/ \E source \in LegacySources :
       legacy_refreshData(source) /\ UNCHANGED otherThanLegacy
  \/ \E c \in 1..Len(legacyCalls) : legacy_poll(c) /\ UNCHANGED otherThanLegacy
  \/ \E c \in 1..Len(legacyCalls), ok \in BOOLEAN :
       legacy_loadEnds(c, ok) /\ UNCHANGED otherThanLegacy

SpecLegacy == Init /\ [][NextLegacy]_vars

\* The ended loads at the end of the list of loads are dropped.
RECURSIVE WithoutEndedTail(_)
WithoutEndedTail(ls) ==
  IF ls = <<>> \/ ls[Len(ls)].state = "inflight" THEN ls
  ELSE WithoutEndedTail(SubSeq(ls, 1, Len(ls) - 1))

\* The latest call has settled and its caller has taken the result or the
\* error: the call's record is no longer kept, so that callers can keep
\* arriving.
legacy_settled ==
  /\ legacyCalls # <<>>
  /\ legacyCalls[Len(legacyCalls)].pc \in {"returned", "threw"}
  /\ legacyCalls' = SubSeq(legacyCalls, 1, Len(legacyCalls) - 1)
  /\ legacyLoads' = WithoutEndedTail(legacyLoads)
  /\ UNCHANGED legacy

NextLegacyLive ==
  \/ \E source \in Sources : legacy_loadData(source) /\ UNCHANGED otherThanLegacy
  \/ \E source \in Sources :
       legacy_refreshData(source) /\ UNCHANGED otherThanLegacy
  \/ \E c \in 1..Len(legacyCalls) : legacy_poll(c) /\ UNCHANGED otherThanLegacy
  \/ \E c \in 1..Len(legacyCalls), ok \in BOOLEAN :
       legacy_loadEnds(c, ok) /\ UNCHANGED otherThanLegacy
  \/ legacy_settled /\ UNCHANGED otherThanLegacy

\* Every load that is in flight ends, and the timer of a waiting call that
\* would find isLoading false fires.  The timer is a task of the event loop:
\* nothing makes it fire in the interval in which the flag is false, so the
\* fairness of the poll is weak.
FairLegacy ==
  /\ \A c \in 1..MaxLegacyCalls :
       WF_vars(c <= Len(legacyCalls) /\ (\E ok \in BOOLEAN : legacy_loadEnds(c, ok))
               /\ UNCHANGED otherThanLegacy)
  /\ \A c \in 1..MaxLegacyCalls :
       WF_vars(c <= Len(legacyCalls) /\ legacy_poll(c) /\ UNCHANGED otherThanLegacy)

\* The legacy service with callers that keep arriving.
SpecLegacyLive == Init /\ [][NextLegacyLive]_vars /\ FairLegacy

\* The legacy service with at most MaxLegacyCalls calls in all.
SpecLegacyFair == Init /\ [][NextLegacy]_vars /\ FairLegacy

----------------------------------------------------------------------------
(* validateMapping as a function of its argument                           *)

\* Entity type lists of up to MaxEntityTypes entries over two type ids.
MaxEntityTypes == 2
TypeIdChoices == {"a", "b"}

EntityTypesOver(ids) ==
  [i \in 1..Len(ids) |-> [rdfClass |-> IF i = 1 THEN "ex:First" ELSE "ex:Second",
                           label |-> "Entity", typeId |-> ids[i]]]

EntityTypesInputs ==
  UNION { {EntityTypesOver(ids) : ids \in [1..n -> TypeIdChoices]} :
            n \in 0..MaxEntityTypes }

\* How a mapping treats one visual attribute: no rule, a rule marked
\* required, a rule marked not required, a rule without a required key.
RuleChoices == {"none", "required", "optional", "unmarked"}

RuleFor(attribute, choice) ==
  LET rdfProperty == CASE attribute = "label" -> "rdfs:label"
                       [] attribute = "position" -> "ex:hasPosition"
                       [] OTHER -> "ex:inGroup"
  IN CASE choice = "none" -> <<>>
       [] choice = "required" ->
            <<[rdfProperty |-> rdfProperty, visualAttribute |-> attribute,
               required |-> TRUE]>>
       [] choice = "optional" ->
            <<[rdfProperty |-> rdfProperty, visualAttribute |-> attribute,
               required |-> FALSE]>>
       [] OTHER ->
            <<[rdfProperty |-> rdfProperty, visualAttribute |-> attribute]>>

PropertiesInputs ==
  { RuleFor("label", f.label) \o RuleFor("position", f.position)
      \o RuleFor("layer", f.layer) :
      f \in [label : RuleChoices, position : RuleChoices, layer : RuleChoices] }

NamespacesInputs == { EmptyMap, [ex |-> "http://example.org/"] }

\* The mappings handed to validateMapping: every combination of the above,
\* each of the three fields present or absent.
ValidatorInputs ==
  { et @@ props @@ ns @@
      [relationships |-> <<>>,
       layerGrouping |-> [layerProperty |-> "ex:inGroup", extractLayerId |-> "lastSegment"]] :
      et \in {EmptyMap} \cup {[entityTypes |-> e] : e \in EntityTypesInputs},
      props \in {EmptyMap} \cup {[properties |-> q] : q \in PropertiesInputs},
      ns \in {EmptyMap} \cup {[namespaces |-> n] : n \in NamespacesInputs} }

InitValidate ==
  /\ InitRegistry /\ InitService /\ InitLegacy
  /\ validation \in {[pc |-> "start", mapping |-> m] : m \in ValidatorInputs}
  /\ extraction = [pc |-> "idle"]

\* The call validateMapping(mapping).
Validate ==
  /\ validation.pc = "start"
  /\ validation' = [pc |-> "done", mapping |-> validation.mapping,
                    result |-> validateMapping(validation.mapping)]

otherThanValidation == <<configurations, activeConfigurationId, last,
                         service, rdfLoader, calls, loads,
                         legacy, legacyCalls, legacyLoads, extraction>>

NextValidate == Validate /\ UNCHANGED otherThanValidation

SpecValidate == InitValidate /\ [][NextValidate]_vars

----------------------------------------------------------------------------
(* queryData as a function of the dataset and the mapping                  *)

\* The default mapping with another transform on its position rule, or with
\* none (name is "none").
withPositionTransform(mapping, name) ==
  [mapping EXCEPT !.properties =
     [i \in 1..Len(mapping.properties) |->
        IF mapping.properties[i].visualAttribute = "position"
          THEN IF name = "none"
                 THEN DropKey(mapping.properties[i], "transform")
                 ELSE DropKey(mapping.properties[i], "transform")
                        @@ [transform |-> name]
          ELSE mapping.properties[i]]]

\* The mapping of the loader's test 'should handle custom mapping structure':
\* one entity type, a required label rule and nothing else, no layerClass.
customMapping ==
  [ entityTypes |-> <<
      [rdfClass |-> "ex:Node", label |-> "Node", typeId |-> "node"] >>,
    properties |-> <<
      [rdfProperty |-> "rdfs:label", visualAttribute |-> "label", required |-> TRUE] >>,
    relationships |-> <<
      [rdfPredicate |-> "ex:connectsTo", label |-> "connects to"] >>,
    layerGrouping |->
      [layerProperty |-> "ex:inGroup", extractLayerId |-> "lastSegment"],
    namespaces |->
      [ex |-> "http://example.org/",
       rdfs |-> "http://www.w3.org/2000/01/rdf-schema#"] ]

\* A mapping cut down to its label rule, as the custom mapping of the test is.
withOnlyLabelRule(mapping) ==
  [mapping EXCEPT !.properties =
     SelectSeq(mapping.properties, LAMBDA rule : rule.visualAttribute = "label")]

\* The mappings handed to the loader: the default one, the default one with a
\* position rule that has no transform, the default one with a position
\* transform that throws on a value it cannot parse, the custom one, and the
\* default one with only its label rule.
ExtractMappings ==
  { DEFAULT_MULTIVERSE_MAPPING,
    withPositionTransform(DEFAULT_MULTIVERSE_MAPPING, "none"),
    withPositionTransform(DEFAULT_MULTIVERSE_MAPPING, "coordsOrThrow"),
    customMapping,
    withOnlyLabelRule(DEFAULT_MULTIVERSE_MAPPING) }

\* The statements a dataset holds for a subject and a property, one per value.
Statements(subject, property, values) ==
  [i \in 1..Len(values) |-> Quad(subject, property, values[i])]

\* Values of the statements of the datasets: none, or the literals in store
\* order.
HeroLabels == {<<>>, <<"Hero">>}
HeroPositions == {<<>>, <<"1,2,3">>, <<"1,2">>, <<"1,2,3,4">>, <<"1,a,3">>}
HeroLayers == {<<>>, <<"ex/u1">>, <<"ex/">>, <<"ex/u2", "ex/u1">>}
FilmLabels == {<<>>, <<"Film">>}
FilmPositions == {<<>>, <<"-6,0,12">>, <<"1,a,3">>}
LayerLabels == {<<>>, <<"Universe One">>}
LayerColors == {<<>>, <<"ff">>, <<"0">>, <<"zz">>}
LayerHeights == {<<>>, <<"7">>, <<"0">>}

\* A dataset: a universe, a character and a movie of that universe, with the
\* given values, two relationships and a cross-layer connection.
Dataset(heroLabel, heroPosition, heroLayer, filmLabel, filmPosition, name, color, height) ==
  [source |-> "input",
   quads |->
     <<Quad("ex/u1", "rdf:type", "mv:Universe")>>
     \o Statements("ex/u1", "rdfs:label", name)
     \o Statements("ex/u1", "mv:hasColor", color)
     \o Statements("ex/u1", "mv:hasHeight", height)
     \o <<Quad("ex:hero", "rdf:type", "mv:Character")>>
     \o Statements("ex:hero", "rdfs:label", heroLabel)
     \o Statements("ex:hero", "mv:hasPosition", heroPosition)
     \o Statements("ex:hero", "mv:belongsToUniverse", heroLayer)
     \o <<Quad("ex:film", "rdf:type", "mv:Movie")>>
     \o Statements("ex:film", "rdfs:label", filmLabel)
     \o Statements("ex:film", "mv:hasPosition", filmPosition)
     \o <<Quad("ex:film", "mv:belongsToUniverse", "ex/u1"),
          Quad("ex:hero", "mv:appearsIn", "ex:film"),
          Quad("ex:hero", "mv:connectsTo", "ex:film"),
          Quad("ex:film", "mv:cameoIn", "ex:other"),
          Quad("ex:film", "mv:connectsTo", "ex:other")>>]

\* The dataset with a second type statement for the character, naming the
\* movie class.
WithSecondType(dataset) ==
  [dataset EXCEPT !.quads = Append(@, Quad("ex:hero", "rdf:type", "mv:Movie"))]

\* A loaded dataset without statements.
EmptyDataset == [source |-> "input", quads |-> <<>>]

\* The datasets handed to the loader: every combination of the entities'
\* values under a complete universe, every combination of the universe's
\* values under complete entities, the character typed twice, the dataset
\* without statements, and no dataset (null: nothing was loaded).
ExtractDatasets ==
  { Dataset(hl, hp, hy, fl, fp, <<"Universe One">>, <<"ff">>, <<"7">>) :
      hl \in HeroLabels, hp \in HeroPositions, hy \in HeroLayers,
      fl \in FilmLabels, fp \in FilmPositions }
  \cup
  { Dataset(<<"Hero">>, <<"1,2,3">>, <<"ex/u1">>, <<"Film">>, <<"-6,0,12">>, ll, c, h) :
      ll \in LayerLabels, c \in LayerColors, h \in LayerHeights }
  \cup
  { WithSecondType(Dataset(hl, hp, <<"ex/u1">>, <<"Film">>, <<"-6,0,12">>,
                           <<"Universe One">>, <<"ff">>, <<"7">>)) :
      hl \in HeroLabels, hp \in HeroPositions }
  \cup {EmptyDataset, Null}

InitExtract ==
  /\ InitRegistry /\ InitService /\ InitLegacy
  /\ validation = [pc |-> "idle"]
  /\ extraction \in {[pc |-> "start", loader |-> [dataset |-> d, mapping |-> m]] :
                       d \in ExtractDatasets, m \in ExtractMappings}

\* A legacy entry point that answers an absent dataset with an empty result.
RDFDataLoader_queryMultiverseData_emptyOnAbsent(loader, queried) ==
  IF loader.dataset = Null
    THEN [threw |-> FALSE, error |-> "none",
          data |-> [extractedFrom |-> "nothing", nodes |-> <<>>, triples |-> <<>>,
                    layers |-> EmptyMap, sharedConnections |-> <<>>,
                    mappingConfig |-> loader.mapping]]
    ELSE queried

\* The loader's legacy entry point: it returns what its call of queryData
\* returns or throws (queried).
RDFDataLoader_queryMultiverseData(loader, queried) == queried

EntryPoints == {"queryData", "queryMultiverseData"}

\* The call queryData() or queryMultiverseData() on a loader holding the
\* dataset and the mapping.
Extract(entry) ==
  /\ extraction.pc = "start"
  /\ \E queried \in {queryData(extraction.loader)} :
       extraction' = [pc |-> "done", loader |-> extraction.loader, entry |-> entry,
                      result |-> IF entry = "queryData" THEN queried
                                 ELSE RDFDataLoader_queryMultiverseData(
                                        extraction.loader, queried)]

otherThanExtraction == <<configurations, activeConfigurationId, last,
                         service, rdfLoader, calls, loads,
                         legacy, legacyCalls, legacyLoads, validation>>

NextExtract == \E entry \in EntryPoints : Extract(entry) /\ UNCHANGED otherThanExtraction

SpecExtract == InitExtract /\ [][NextExtract]_vars

----------------------------------------------------------------------------
(* Claims about the registry                                               *)

\* The registry is as the last call found it.
RegistryUntouched ==
  /\ configurations = last.pre.configurations
  /\ activeConfigurationId = last.pre.activeConfigurationId

\* The Validator reports at least one violation for the mapping.
ReportsViolation(mapping) ==
  LET v == validateMapping(mapping) IN ~v.threw /\ Len(v.errors) > 0

\* C1: register(id, config) with a configuration for which the Validator
\* reports at least one violation fails, and the registered ids, every stored
\* configuration and the active id are as they were before the call.
C1_InvalidRegisterIsAtomic ==
  (last.op = "register" /\ ReportsViolation(last.mapping))
    => (last.outcome = "throw" /\ RegistryUntouched)

\* A register of the invalid mapping under an unregistered id has failed.
C1_Witness ==
  /\ last.op = "register"
  /\ last.mapping = invalidMapping
  /\ last.outcome = "throw"
  /\ ~MapHas(last.pre.configurations, last.id)

\* C5 (as claimed): after clone(sourceId, newId) on a registered source the
\* configuration under newId carries the full rule set of the source: the
\* same keys with the same values, every property rule's transform and the
\* layer grouping's extractLayerId included.
C5_CloneCarriesFunctions ==
  (last.op = "clone" /\ last.outcome = "ok")
    => configurations[last.newId] = last.pre.configurations[last.id]

\* What the code does: the clone under newId is the source without its
\* function-valued keys.
C5_CloneIsDataOnly ==
  (last.op = "clone" /\ last.outcome = "ok")
    => /\ configurations[last.newId] = StripFunctions(last.pre.configurations[last.id])
       /\ "extractLayerId" \notin DOMAIN configurations[last.newId].layerGrouping

\* The built-in default has been cloned under a new id.
C5_Witness ==
  /\ last.op = "clone"
  /\ last.outcome = "ok"
  /\ last.pre.configurations[last.id] = DEFAULT_MULTIVERSE_MAPPING
  /\ last.newId = "test"

\* C6: remove("default") fails and changes nothing, and 'default' is
\* registered in every state.
C6_DefaultIsProtected ==
  /\ MapHas(configurations, "default")
  /\ (last.op = "remove" /\ last.id = "default")
       => (last.outcome = "throw" /\ RegistryUntouched)

\* remove("default") has failed while another configuration was active.
C6_Witness ==
  /\ last.op = "remove"
  /\ last.id = "default"
  /\ last.outcome = "throw"
  /\ activeConfigurationId = "test"

\* C7: setActive(id) with an unregistered id fails and leaves the active id
\* unchanged; with a registered id it succeeds and getActive() returns the
\* configuration stored under id.
C7_SetActive ==
  last.op = "setActive" =>
    IF MapHas(last.pre.configurations, last.id)
      THEN /\ last.outcome = "ok"
           /\ getActiveConfiguration = last.pre.configurations[last.id]
           /\ configurations = last.pre.configurations
      ELSE /\ last.outcome = "throw"
           /\ RegistryUntouched

\* setActive of an unregistered id has failed after an earlier setActive made
\* a registered, non-default configuration active.
C7_Witness ==
  /\ last.op = "setActive"
  /\ last.outcome = "throw"
  /\ activeConfigurationId = "test"
  /\ getActiveConfiguration = testMapping

\* C8: remove(id), id other than 'default', deletes exactly the entry id; the
\* active id becomes 'default' if it was id and is unchanged otherwise; the
\* call returns true exactly when id was registered before it.
C8_RemoveExactly ==
  (last.op = "remove" /\ last.id # "default") =>
    /\ last.outcome = "ok"
    /\ DOMAIN configurations = DOMAIN last.pre.configurations \ {last.id}
    /\ \A k \in DOMAIN configurations : configurations[k] = last.pre.configurations[k]
    /\ activeConfigurationId =
         IF last.pre.activeConfigurationId = last.id
           THEN "default" ELSE last.pre.activeConfigurationId
    /\ last.ret = (last.id \in DOMAIN last.pre.configurations)

\* The active configuration has been removed.
C8_Witness ==
  /\ last.op = "remove"
  /\ last.pre.activeConfigurationId = last.id
  /\ last.id # "default"
  /\ last.ret

\* C9: the active id names a registered configuration, so getActive() returns
\* the configuration stored under it and not the fallback.
C9_ActiveIsRegistered ==
  /\ MapHas(configurations, activeConfigurationId)
  /\ getActiveConfiguration = configurations[activeConfigurationId]

\* The active configuration has been removed while 'default' held a
\* configuration other than the built-in one.
C9_Witness ==
  /\ last.op = "remove"
  /\ last.pre.activeConfigurationId = last.id
  /\ last.id # "default"
  /\ configurations["default"] # DEFAULT_MULTIVERSE_MAPPING

\* C10: reset() yields the state of a freshly constructed registry: exactly
\* 'default', 'multiverse' and 'orgchart', each bound to its built-in
\* configuration, and 'default' active.
C10_ResetIsFresh ==
  last.op = "reset" =>
    /\ configurations = constructor.configurations
    /\ activeConfigurationId = constructor.activeConfigurationId
    /\ DOMAIN configurations = {"default", "multiverse", "orgchart"}
    /\ configurations["default"] = DEFAULT_MULTIVERSE_MAPPING
    /\ configurations["multiverse"] = DEFAULT_MULTIVERSE_MAPPING
    /\ configurations["orgchart"] = EXAMPLE_ORG_CHART_MAPPING
    /\ activeConfigurationId = "default"

\* reset() has run on a registry whose 'default' had been re-registered, that
\* held an extra id and had another configuration active.
C10_Witness ==
  /\ last.op = "reset"
  /\ last.pre.configurations["default"] = testMapping
  /\ MapHas(last.pre.configurations, "test")
  /\ last.pre.activeConfigurationId = "test"
  /\ ~MapHas(last.pre.configurations, "orgchart")

----------------------------------------------------------------------------
(* Claims about the validator                                              *)

\* A rule of the mapping targets the attribute and is marked required.
RequiredRuleTargets(m, attribute) ==
  /\ "properties" \in DOMAIN m
  /\ \E i \in DOMAIN m.properties :
       LET rule == m.properties[i]
       IN /\ rule.visualAttribute = attribute
          /\ "required" \in DOMAIN rule
          /\ rule.required = TRUE

\* The six conditions of a valid configuration, in the order of the checks.
Condition(m, k) ==
  CASE k = 1 -> "entityTypes" \in DOMAIN m /\ m.entityTypes # <<>>
    [] k = 2 -> RequiredRuleTargets(m, "label")
    [] k = 3 -> RequiredRuleTargets(m, "position")
    [] k = 4 -> RequiredRuleTargets(m, "layer")
    [] k = 5 -> "entityTypes" \in DOMAIN m =>
                  \A i, j \in DOMAIN m.entityTypes :
                    i # j => m.entityTypes[i].typeId # m.entityTypes[j].typeId
    [] OTHER -> "namespaces" \in DOMAIN m /\ DOMAIN m.namespaces # {}

\* The message of each check.
ViolationMessages ==
  << "At least one entity type mapping is required",
     "A required label property mapping is needed",
     "A required position property mapping is needed",
     "A required layer property mapping is needed",
     "Entity type IDs must be unique",
     "At least one namespace mapping is required" >>

MessageIndex(message) == CHOOSE k \in 1..6 : ViolationMessages[k] = message

\* C11: validate(config) returns an empty violation list if and only if all
\* six conditions hold; a rule that targets Label, Position or Layer and is
\* not marked required does not satisfy its check.
C11_EmptyIffAllSix ==
  validation.pc = "done" =>
    ( (~validation.result.threw /\ validation.result.errors = <<>>)
        <=> \A k \in 1..6 : Condition(validation.mapping, k) )

\* A mapping whose only defect is a label rule that is not marked required
\* has been validated, and the label violation alone was reported.
C11_Witness ==
  /\ validation.pc = "done"
  /\ "properties" \in DOMAIN validation.mapping
  /\ \E i \in DOMAIN validation.mapping.properties :
       LET rule == validation.mapping.properties[i]
       IN rule.visualAttribute = "label" /\ "required" \in DOMAIN rule /\ ~rule.required
  /\ \A k \in {1, 3, 4, 5, 6} : Condition(validation.mapping, k)
  /\ validation.result.errors = <<"A required label property mapping is needed">>

\* C12: when validate(config) returns, it reports every violated check: each
\* violated check contributes its message exactly once, a check that holds
\* contributes nothing, and the messages are in the order of the checks.
C12_AllViolationsInOrder ==
  (validation.pc = "done" /\ ~validation.result.threw) =>
    LET errors == validation.result.errors
    IN /\ \A i \in DOMAIN errors : \E k \in 1..6 : errors[i] = ViolationMessages[k]
       /\ \A k \in 1..6 :
            Cardinality({i \in DOMAIN errors : errors[i] = ViolationMessages[k]})
              = IF Condition(validation.mapping, k) THEN 0 ELSE 1
       /\ \A i, j \in DOMAIN errors :
            i < j => MessageIndex(errors[i]) < MessageIndex(errors[j])

\* A configuration with no entity types, no property rules and no namespaces
\* has been validated and five messages were reported.
C12_Witness ==
  /\ validation.pc = "done"
  /\ ~validation.result.threw
  /\ validation.mapping.entityTypes = <<>>
  /\ validation.mapping.properties = <<>>
  /\ "namespaces" \in DOMAIN validation.mapping
  /\ DOMAIN validation.mapping.namespaces = {}
  /\ Len(validation.result.errors) = 5

\* C13 (as claimed): validate(config) never throws, so a failing register
\* fails with the error that carries the violation list.
C13_ValidateNeverThrows ==
  last.op = "register" =>
    /\ ~validateMapping(last.mapping).threw
    /\ last.outcome = "throw" => last.error = "Invalid mapping configuration"

----------------------------------------------------------------------------
(* Claims about import, export and clone                                   *)

\* The data-only fields of a configuration: the entity types, each property
\* rule's IRI, target attribute and required flag, the relationship rules
\* and the namespace prefixes.
DataOnly(c) ==
  [ entityTypes |-> c.entityTypes,
    properties |->
      [i \in DOMAIN c.properties |->
         [k \in DOMAIN c.properties[i] \cap {"rdfProperty", "visualAttribute", "required"}
            |-> c.properties[i][k]]],
    relationships |-> c.relationships,
    namespaces |-> c.namespaces ]

\* C14: round trip.  For a registered configuration c,
\* importFromText(newId, exportAsText(id)) succeeds and the configuration
\* stored under newId has the data-only fields of c.
C14_RoundTrip ==
  \A id \in DOMAIN last.pre.configurations :
    (last.op = "import"
       /\ last.jsonConfig = exportConfiguration(last.pre.configurations, id))
      => /\ last.outcome = "ok"
         /\ MapHas(configurations, last.id)
         /\ DataOnly(configurations[last.id]) = DataOnly(last.pre.configurations[id])

\* The export of the built-in org chart configuration, which carries
\* transforms, has been imported under a new id.
C14_Witness ==
  /\ last.op = "import"
  /\ MapHas(last.pre.configurations, "orgchart")
  /\ last.pre.configurations["orgchart"] = EXAMPLE_ORG_CHART_MAPPING
  /\ last.jsonConfig = exportConfiguration(last.pre.configurations, "orgchart")
  /\ last.id = "test"
  /\ last.outcome = "ok"

\* C15: clone(sourceId, newId) with an unregistered sourceId fails with
\* SourceNotFound; nothing is stored under newId, the registry and the active
\* id are unchanged.
C15_CloneOfMissingSource ==
  (last.op = "clone" /\ ~MapHas(last.pre.configurations, last.id))
    => /\ last.outcome = "throw"
       /\ last.error = "Source configuration not found"
       /\ RegistryUntouched

\* A clone of an unregistered source onto an unregistered id has failed.
C15_Witness ==
  /\ last.op = "clone"
  /\ ~MapHas(last.pre.configurations, last.id)
  /\ ~MapHas(last.pre.configurations, last.newId)
  /\ last.outcome = "throw"
  /\ ~MapHas(configurations, last.newId)

\* The three steps of an import all pass for the input.
ImportPasses(jsonConfig) ==
  LET parsed == IF "string" \in DOMAIN jsonConfig
                  THEN JSONparse(jsonConfig)
                  ELSE [threw |-> FALSE, value |-> jsonConfig]
  IN /\ ~parsed.threw
     /\ isValidMappingStructure(parsed.value)
     /\ \A k \in 1..6 : Condition(parsed.value, k)

\* C16: importFromText(id, text) registers a configuration only after it
\* parsed, passed the structure check and passed the Validator; when one of
\* the three steps fails the call fails and the registry is unchanged.
C16_ImportIsAtomic ==
  last.op = "import" =>
    IF ImportPasses(last.jsonConfig)
      THEN /\ last.outcome = "ok"
           /\ MapHas(configurations, last.id)
           /\ \A k \in DOMAIN configurations \ {last.id} :
                /\ MapHas(last.pre.configurations, k)
                /\ configurations[k] = last.pre.configurations[k]
      ELSE /\ last.outcome = "throw"
           /\ RegistryUntouched

\* An import of a text that parses and has the structure but fails the
\* Validator has failed on an id that held a configuration.
C16_Witness ==
  /\ last.op = "import"
  /\ last.jsonConfig = JSONstringify(invalidMapping)
  /\ last.outcome = "throw"
  /\ MapHas(last.pre.configurations, last.id)
  /\ configurations[last.id] = last.pre.configurations[last.id]

----------------------------------------------------------------------------
(* Claims about the extraction engine                                      *)

\* The statements of the loader's dataset; none when nothing was loaded.
QuadsOf(loader) ==
  IF loader.dataset = Null THEN <<>> ELSE loader.dataset.quads

\* The subjects of the dataset that a type statement assigns a configured
\* class.
TypedSubjects(loader) ==
  {QuadsOf(loader)[q].subject :
     q \in {k \in 1..Len(QuadsOf(loader)) :
              /\ QuadsOf(loader)[k].predicate = "rdf:type"
              /\ \E i \in 1..Len(loader.mapping.entityTypes) :
                   loader.mapping.entityTypes[i].rdfClass = QuadsOf(loader)[k].object}}

\* The values of the subject's statements for the property, in store order.
ValuesOf(loader, subject, property) ==
  LET quads == QuadsOf(loader)
      hits == SelectSeq([i \in 1..Len(quads) |-> i],
                LAMBDA i : quads[i].subject = subject /\ quads[i].predicate = property)
  IN [k \in 1..Len(hits) |-> quads[hits[k]].object]

\* The property a mapping's (first) rule for an attribute reads, or a
\* property no statement has when the mapping has no rule for the attribute.
PropertyFor(mapping, attribute) ==
  IF \E i \in 1..Len(mapping.properties) :
          mapping.properties[i].visualAttribute = attribute
    THEN mapping.properties[CHOOSE i \in 1..Len(mapping.properties) :
                              /\ mapping.properties[i].visualAttribute = attribute
                              /\ \A j \in 1..(i - 1) :
                                   mapping.properties[j].visualAttribute # attribute
                           ].rdfProperty
    ELSE "no rule"

\* A literal parses into exactly three numeric components.
ParsesToThreeNumbers(value) ==
  LET parts == split(Spell(value), ",")
  IN /\ Len(parts) = 3
     /\ \A k \in 1..3 : parts[k] # <<>> /\ Number(parts[k]) # NaN

\* The subject has a position statement whose value does not parse into
\* exactly three numbers.
HasMalformedPosition(loader, subject) ==
  LET values == ValuesOf(loader, subject, PropertyFor(loader.mapping, "position"))
  IN values # <<>> /\ ~ParsesToThreeNumbers(values[1])

\* The subject lacks a statement for a required property rule.
LacksRequired(loader, subject) ==
  \E i \in 1..Len(loader.mapping.properties) :
    /\ IsRequired(loader.mapping.properties[i])
    /\ ValuesOf(loader, subject, loader.mapping.properties[i].rdfProperty) = <<>>

\* The subject's label, position and layer all resolve: a non-empty label, a
\* position of exactly three numbers and a layer value with a non-empty last
\* segment.
Resolves(loader, subject) ==
  LET labels == ValuesOf(loader, subject, PropertyFor(loader.mapping, "label"))
      positions == ValuesOf(loader, subject, PropertyFor(loader.mapping, "position"))
      layers == ValuesOf(loader, subject, PropertyFor(loader.mapping, "layer"))
  IN /\ labels # <<>> /\ labels[1] # ""
     /\ positions # <<>> /\ ParsesToThreeNumbers(positions[1])
     /\ layers # <<>> /\ layers[1] # ""
     /\ LET segments == split(Spell(layers[1]), "/")
        IN segments[Len(segments)] # <<>>

\* The ids of the entities of a result.
EntityIds(result) == {result.data.nodes[i].id : i \in 1..Len(result.data.nodes)}

\* A present number: not undefined and not NaN.
IsPresentNumber(node, key) == key \in DOMAIN node /\ "number" \in DOMAIN node[key]

\* No transform of the mapping throws.
NoThrowingTransform(mapping) ==
  \A i \in 1..Len(mapping.properties) :
    "transform" \in DOMAIN mapping.properties[i]
      => mapping.properties[i].transform # "coordsOrThrow"

\* C18 (as claimed): every entity of an extraction result has a label, a
\* non-empty layerKey and a position of three present numbers, and a typed
\* subject whose position value does not parse into exactly three numbers is
\* not materialized.
C18_EntitiesAreComplete ==
  (extraction.pc = "done" /\ ~extraction.result.threw) =>
    /\ \A i \in 1..Len(extraction.result.data.nodes) :
         LET node == extraction.result.data.nodes[i]
         IN /\ "label" \in DOMAIN node /\ node.label # ""
            /\ "layer" \in DOMAIN node /\ node.layer # ""
            /\ IsPresentNumber(node, "x")
            /\ IsPresentNumber(node, "y")
            /\ IsPresentNumber(node, "z")
    /\ \A subject \in TypedSubjects(extraction.loader) :
         HasMalformedPosition(extraction.loader, subject)
           => subject \notin EntityIds(extraction.result)

\* A position with too few components: the one malformed case the code drops
\* under every mapping.
C18_TooFewIsDropped ==
  (extraction.pc = "done" /\ ~extraction.result.threw) =>
    \A subject \in TypedSubjects(extraction.loader) :
      ValuesOf(extraction.loader, subject,
               PropertyFor(extraction.loader.mapping, "position")) = <<"1,2">>
        => subject \notin EntityIds(extraction.result)

\* C19: drop-not-crash.  When a typed subject lacks a statement for a required
\* property rule (and no transform throws), extract does not raise, the
\* result has no entity for that subject and has an entity for every typed
\* subject whose required properties all resolve.
C19_DropNotCrash ==
  (extraction.pc = "done" /\ NoThrowingTransform(extraction.loader.mapping)) =>
    \A subject \in TypedSubjects(extraction.loader) :
      LacksRequired(extraction.loader, subject) =>
        /\ ~extraction.result.threw
        /\ subject \notin EntityIds(extraction.result)
        /\ \A other \in TypedSubjects(extraction.loader) \ {subject} :
             Resolves(extraction.loader, other)
               => other \in EntityIds(extraction.result)

\* The character lacks its position statement, the movie is complete, and the
\* result holds the movie alone.
C19_Witness ==
  /\ extraction.pc = "done"
  /\ extraction.loader.mapping = DEFAULT_MULTIVERSE_MAPPING
  /\ ValuesOf(extraction.loader, "ex:hero", "mv:hasPosition") = <<>>
  /\ ValuesOf(extraction.loader, "ex:hero", "rdfs:label") # <<>>
  /\ ValuesOf(extraction.loader, "ex:hero", "mv:belongsToUniverse") = <<"ex/u1">>
  /\ ~extraction.result.threw
  /\ EntityIds(extraction.result) = {"ex:film"}

\* C20 (as claimed): when a rule's transform raises on a raw value, extract
\* does not raise; the other subjects are still processed, so every typed
\* subject whose required properties all resolve has an entity.
C20_TransformFailureIsAbsent ==
  (extraction.pc = "done" /\ extraction.loader.dataset # Null) =>
    /\ ~extraction.result.threw
    /\ \A subject \in TypedSubjects(extraction.loader) :
         Resolves(extraction.loader, subject)
           => subject \in EntityIds(extraction.result)

\* The indices of the statements whose predicate is a configured relationship
\* predicate, in store order.
RelationshipStatements(loader) ==
  SelectSeq([k \in 1..Len(QuadsOf(loader)) |-> k],
            LAMBDA k : \E i \in 1..Len(loader.mapping.relationships) :
                         loader.mapping.relationships[i].rdfPredicate
                           = QuadsOf(loader)[k].predicate)

\* The part of an IRI after its last slash (all of it when it has none).
AfterLastSlash(value) ==
  LET chars == Spell(value)
      slashes == {i \in 1..Len(chars) : chars[i] = "/"}
      lastSlash == IF slashes = {} THEN 0
                   ELSE CHOOSE i \in slashes : \A j \in slashes : j <= i
  IN Unspell(SubSeq(chars, lastSlash + 1, Len(chars)))

\* The layer key of a subject by the on-demand lookup: the last segment of
\* the value of its first layer-property statement, or the empty string.
LayerKeyOf(loader, subject) ==
  LET values == ValuesOf(loader, subject, loader.mapping.layerGrouping.layerProperty)
  IN IF values = <<>> THEN "" ELSE AfterLastSlash(values[1])

\* C21: pass B emits exactly one relationship for every statement whose
\* predicate is a configured relationship predicate, in store order, and none
\* for other statements; its layerKey is extractLayerId of the subject's first
\* layer-property statement value, or the empty string when there is none;
\* whether the subject or the object is a materialized entity plays no part.
C21_OneRelationshipPerStatement ==
  (extraction.pc = "done" /\ ~extraction.result.threw) =>
    LET statements == RelationshipStatements(extraction.loader)
        triples == extraction.result.data.triples
    IN /\ Len(triples) = Len(statements)
       /\ \A n \in 1..Len(statements) :
            LET quad == QuadsOf(extraction.loader)[statements[n]]
            IN triples[n] = [subject |-> quad.subject, predicate |-> quad.predicate,
                             object |-> quad.object,
                             layer |-> LayerKeyOf(extraction.loader, quad.subject)]

\* The character has no layer statement and is not materialized, the movie
\* is, and the result holds the character's relationship with an empty
\* layerKey and the movie's, whose object is no entity, with the key u1.
C21_Witness ==
  /\ extraction.pc = "done"
  /\ ~extraction.result.threw
  /\ extraction.loader.mapping = DEFAULT_MULTIVERSE_MAPPING
  /\ ValuesOf(extraction.loader, "ex:hero", "mv:belongsToUniverse") = <<>>
  /\ EntityIds(extraction.result) = {"ex:film"}
  /\ extraction.result.data.triples =
       << [subject |-> "ex:hero", predicate |-> "mv:appearsIn", object |-> "ex:film",
           layer |-> ""],
          [subject |-> "ex:film", predicate |-> "mv:cameoIn", object |-> "ex:other",
           layer |-> "u1"] >>

\* The character has two layer statements and its relationship carries the
\* key of the first.
C21_FirstMatchWitness ==
  /\ extraction.pc = "done"
  /\ ~extraction.result.threw
  /\ ValuesOf(extraction.loader, "ex:hero", "mv:belongsToUniverse") = <<"ex/u2", "ex/u1">>
  /\ Len(extraction.result.data.triples) = 2
  /\ extraction.result.data.triples[1].layer = "u2"

\* The subjects that a type statement assigns the configured layer class.
LayerSubjects(loader) ==
  {QuadsOf(loader)[k].subject :
     k \in {q \in 1..Len(QuadsOf(loader)) :
              /\ QuadsOf(loader)[q].predicate = "rdf:type"
              /\ QuadsOf(loader)[q].object
                   = loader.mapping.layerGrouping.layerClass}}

\* C22: pass C returns an empty layer map when layerClass is unset; otherwise
\* every layer of the map belongs to a subject typed as layerClass whose
\* display name resolved, carries that name, and is stored under
\* extractLayerId of the subject's identifier.
C22_LayersKeyedBySubject ==
  (extraction.pc = "done" /\ ~extraction.result.threw) =>
    LET loader == extraction.loader
        layers == extraction.result.data.layers
    IN IF "layerClass" \notin DOMAIN loader.mapping.layerGrouping
         THEN layers = EmptyMap
         ELSE \A key \in DOMAIN layers :
                \E subject \in LayerSubjects(loader) :
                  LET names == ValuesOf(loader, subject,
                                        PropertyFor(loader.mapping, "label"))
                  IN /\ names # <<>> /\ names[1] # ""
                     /\ layers[key].name = names[1]
                     /\ key = AfterLastSlash(subject)
                     /\ key # names[1]

\* The universe ex/u1 has a label and the result holds the layer u1 with that
\* name and nothing else.
C22_Witness ==
  /\ extraction.pc = "done"
  /\ ~extraction.result.threw
  /\ extraction.loader.mapping = DEFAULT_MULTIVERSE_MAPPING
  /\ ValuesOf(extraction.loader, "ex/u1", "rdfs:label") = <<"Universe One">>
  /\ DOMAIN extraction.result.data.layers = {"u1"}
  /\ extraction.result.data.layers["u1"].name = "Universe One"

\* A mapping without layerClass on a dataset that holds a labelled universe:
\* the layer map is empty.
C22_UnsetWitness ==
  /\ extraction.pc = "done"
  /\ ~extraction.result.threw
  /\ "layerClass" \notin DOMAIN extraction.loader.mapping.layerGrouping
  /\ ValuesOf(extraction.loader, "ex/u1", "rdfs:label") = <<"Universe One">>
  /\ extraction.result.data.layers = EmptyMap

\* The universe has no label and the result has no layer for it.
C22_UnnamedWitness ==
  /\ extraction.pc = "done"
  /\ ~extraction.result.threw
  /\ extraction.loader.mapping = DEFAULT_MULTIVERSE_MAPPING
  /\ ValuesOf(extraction.loader, "ex/u1", "rdfs:label") = <<>>
  /\ extraction.result.data.layers = EmptyMap

\* The value a layer subject's first statement for an attribute's rule maps
\* to: [stated, value], value being the rule's transform of the literal.
MappedLayerValue(loader, subject, attribute) ==
  LET values == ValuesOf(loader, subject, PropertyFor(loader.mapping, attribute))
  IN IF values = <<>>
       THEN [stated |-> FALSE, value |-> undefined]
       ELSE [stated |-> TRUE,
             value |-> IF attribute = "color" THEN parseInt16(Spell(values[1]))
                                              ELSE parseFloat(Spell(values[1]))]

\* C23 (as claimed): for every materialized layer, color and height equal the
\* mapped values whenever the layer subject has a statement for the rule and
\* the value is a number, a mapped 0 included; the defaults 0x666666 and 0
\* are used only when the subject has no such statement.
C23_MappedValuesAreKept ==
  (extraction.pc = "done" /\ ~extraction.result.threw
     /\ extraction.loader.mapping = DEFAULT_MULTIVERSE_MAPPING) =>
    \A subject \in LayerSubjects(extraction.loader) :
      LET key == AfterLastSlash(subject)
          layers == extraction.result.data.layers
          color == MappedLayerValue(extraction.loader, subject, "color")
          height == MappedLayerValue(extraction.loader, subject, "height")
      IN key \in DOMAIN layers =>
           /\ (color.stated /\ "number" \in DOMAIN color.value)
                => layers[key].color = color.value
           /\ ~color.stated => layers[key].color = Num(6710886)
           /\ (height.stated /\ "number" \in DOMAIN height.value)
                => layers[key].height = height.value
           /\ ~height.stated => layers[key].height = Num(0)

\* The part of C23 the code keeps: a mapped value other than 0 is kept, and
\* a layer without a statement gets the default.
C23_NonZeroValuesAreKept ==
  (extraction.pc = "done" /\ ~extraction.result.threw
     /\ extraction.loader.mapping = DEFAULT_MULTIVERSE_MAPPING) =>
    \A subject \in LayerSubjects(extraction.loader) :
      LET key == AfterLastSlash(subject)
          layers == extraction.result.data.layers
          color == MappedLayerValue(extraction.loader, subject, "color")
          height == MappedLayerValue(extraction.loader, subject, "height")
      IN key \in DOMAIN layers =>
           /\ (color.stated /\ "number" \in DOMAIN color.value
                 /\ color.value # Num(0))
                => layers[key].color = color.value
           /\ ~color.stated => layers[key].color = Num(6710886)
           /\ (height.stated /\ "number" \in DOMAIN height.value)
                => layers[key].height = height.value
           /\ ~height.stated => layers[key].height = Num(0)

\* validateMapping reports a violation for the mapping.
IsInvalidMapping(mapping) ==
  validateMapping(mapping).threw \/ validateMapping(mapping).errors # <<>>

\* C24 (as claimed): extract given a configuration for which validate reports
\* a violation fails fast with ConfigurationInvalid instead of running the
\* passes.
C24_EngineRevalidates ==
  (extraction.pc = "done" /\ IsInvalidMapping(extraction.loader.mapping)) =>
    /\ extraction.result.threw
    /\ extraction.result.error = "Invalid mapping configuration"

\* C24 (as amended): the engine does not validate its configuration.  Extract
\* given a configuration for which validate reports a violation does not fail
\* with ConfigurationInvalid: it runs the passes with that configuration and,
\* when no transform raises, returns a result whose mappingConfig is that
\* configuration, with the relationships of pass B, the layers of pass C and
\* only entities that passed the engine's own completeness check.
C24_EngineDoesNotRevalidate ==
  (extraction.pc = "done" /\ IsInvalidMapping(extraction.loader.mapping)) =>
    /\ extraction.result.error # "Invalid mapping configuration"
    /\ (NoThrowingTransform(extraction.loader.mapping)
          /\ extraction.loader.dataset # Null) =>
         /\ ~extraction.result.threw
         /\ extraction.result.data.mappingConfig = extraction.loader.mapping
         /\ Len(extraction.result.data.triples)
              = Len(RelationshipStatements(extraction.loader))
         /\ \A i \in 1..Len(extraction.result.data.nodes) :
              /\ ~IsUndefined(extraction.result.data.nodes[i], "x")
              /\ "layer" \in DOMAIN extraction.result.data.nodes[i]

\* The default mapping with only its label rule, which validateMapping
\* rejects, on a complete dataset: queryData returns the two relationships
\* and the layer, and no entity.
C24_Witness ==
  /\ extraction.pc = "done"
  /\ extraction.loader.mapping = withOnlyLabelRule(DEFAULT_MULTIVERSE_MAPPING)
  /\ Len(validateMapping(extraction.loader.mapping).errors) = 2
  /\ ~extraction.result.threw
  /\ extraction.result.data.nodes = <<>>
  /\ Len(extraction.result.data.triples) = 2
  /\ DOMAIN extraction.result.data.layers = {"u1"}

----------------------------------------------------------------------------
(* Claims about the extraction service                                     *)

\* C2 (as claimed): single-flight.  When a loadAndExtract call arrives while
\* the load of an earlier call for the same source and configuration is in
\* flight, it issues no underlying load of its own, and when both calls have
\* returned their results are equal.
C2_SingleFlight ==
  \A a, b \in 1..Len(calls) :
    ( /\ a < b
      /\ calls[a].op = "loadDataWithConfiguration"
      /\ calls[b].op = "loadDataWithConfiguration"
      /\ calls[a].source = calls[b].source
      /\ calls[a].configurationId = calls[b].configurationId
      /\ "load" \in DOMAIN calls[a]
      /\ calls[a].load \in calls[b].arrivedDuring )
    => /\ "load" \notin DOMAIN calls[b]
       /\ Cardinality({j \in 1..Len(loads) : loads[j].call \in {a, b}}) = 1
       /\ (calls[a].pc = "returned" /\ calls[b].pc = "returned")
            => calls[a].result = calls[b].result

\* C17: loadAndExtract(source, configurationId) with an unregistered
\* configurationId fails with ConfigurationNotFound before any load is
\* started: the call issues no load and leaves the cached result and the
\* loading flag as they were.
C17_UnknownConfigurationFailsFirst ==
  \A c \in 1..Len(calls) :
    (calls[c].op = "loadDataWithConfiguration"
       /\ ~MapHas(configurations, calls[c].configurationId))
      => /\ calls[c].pc = "threw"
         /\ calls[c].error = "ConfigurationNotFound"
         /\ "load" \notin DOMAIN calls[c]
         /\ \A j \in 1..Len(loads) : loads[j].call # c
         /\ calls[c].serviceAfter.cachedData = calls[c].serviceBefore.cachedData
         /\ calls[c].serviceAfter.isLoading = calls[c].serviceBefore.isLoading

\* A load with an unregistered configuration has failed on a service that
\* held a cached result, and another on a service that was loading.
C17_Witness ==
  \E c, d \in 1..Len(calls) :
    /\ calls[c].op = "loadDataWithConfiguration"
    /\ calls[c].pc = "threw"
    /\ calls[c].error = "ConfigurationNotFound"
    /\ calls[c].serviceBefore.cachedData # Null
    /\ service.cachedData # Null
    /\ calls[d].op = "loadDataWithConfiguration"
    /\ calls[d].pc = "threw"
    /\ calls[d].serviceBefore.isLoading

\* C3 (as claimed): at most one underlying load is in flight.
C3_AtMostOneLoadInFlight == Cardinality(InFlight(loads)) <= 1

\* The legacy service, whose loadData waits while isLoading is set, keeps at
\* most one load in flight.
C3_LegacyAtMostOneLoadInFlight == Cardinality(InFlight(legacyLoads)) <= 1

\* C4 (as claimed): the result returned by loadAndExtract(source,
\* configurationId) was extracted from the store loaded for source with the
\* configuration registered under configurationId.
C4_ResultMatchesCall ==
  \A c \in 1..Len(calls) :
    (calls[c].op = "loadDataWithConfiguration" /\ calls[c].pc = "returned")
      => /\ calls[c].result.extractedFrom = calls[c].source
         /\ calls[c].result.mappingConfig = configurations[calls[c].configurationId]

\* Every check of validateNodes on a node but the one on its type.
ValidButForType(node) ==
  /\ node.id # "" /\ node.label # "" /\ node.layer # ""
  /\ IsNumber(node.x) /\ IsNumber(node.y) /\ IsNumber(node.z)

\* C25 (as claimed): the result validator does not reject an entity because
\* of its typeId.  A load fails with ResultValidationFailed only for a result
\* that has a node with a missing id, label, layer or coordinate, or an
\* invalid layer.
C25_AnyTypeIdIsAccepted ==
  \A c \in 1..Len(calls) :
    (calls[c].pc = "threw" /\ calls[c].error = "ResultValidationFailed") =>
      \/ \E i \in 1..Len(calls[c].rejected.nodes) :
           ~ValidButForType(calls[c].rejected.nodes[i])
      \/ ~validateLayers(calls[c].rejected.layers)

\* C26: when validateData rejects an extraction result, the call fails with
\* ResultValidationFailed, the finally block has cleared the loading flag
\* when the call fails, and the cache never holds the rejected result.
C26_RejectedIsNotCached ==
  /\ [](\A c \in 1..Len(calls) :
          (calls[c].pc = "threw" /\ calls[c].error = "ResultValidationFailed") =>
            /\ ~validateData(calls[c].rejected)
            /\ getCachedData # calls[c].rejected)
  /\ [][\A c \in 1..Len(calls) :
          (calls[c].pc = "loading" /\ calls'[c].pc = "threw"
             /\ calls'[c].error = "ResultValidationFailed") =>
            /\ ~isDataLoading'
            /\ getCachedData' = getCachedData]_vars

\* A load has failed with ResultValidationFailed on a result that has a node,
\* the flag is clear, and the cache holds the result of another call, which
\* returned while the failed one was loading.
C26_Witness ==
  \E a, c \in 1..Len(calls) :
    /\ calls[c].pc = "threw"
    /\ calls[c].error = "ResultValidationFailed"
    /\ Len(calls[c].rejected.nodes) > 0
    /\ calls[a].pc = "returned"
    /\ "result" \in DOMAIN calls[a]
    /\ getCachedData = calls[a].result
    /\ ~isDataLoading

\* The same for the legacy service: a rejected result is never its cached
\* data, and the step in which the call fails clears its loading flag.
C26_LegacyRejectedIsNotCached ==
  /\ [](\A c \in 1..Len(legacyCalls) :
          (legacyCalls[c].pc = "threw"
             /\ legacyCalls[c].error = "ResultValidationFailed") =>
            legacy.cachedData # legacyCalls[c].rejected)
  /\ [][\A c \in 1..Len(legacyCalls) :
          (c <= Len(legacyCalls') /\ legacyCalls[c].pc = "loading"
             /\ legacyCalls'[c].pc = "threw"
             /\ legacyCalls'[c].error = "ResultValidationFailed") =>
            /\ ~legacy'.isLoading
            /\ legacy'.cachedData = legacy.cachedData]_vars

\* C27 (as claimed): the cache is keyed by the source.  Whenever a load call
\* returns a result from the cache without issuing an underlying load, that
\* result was extracted from the store of the source the call names.
C27_CacheIsKeyedBySource ==
  \A c \in 1..Len(legacyCalls) :
    (legacyCalls[c].pc = "returned" /\ "fromCache" \in DOMAIN legacyCalls[c]) =>
      legacyCalls[c].result.extractedFrom = legacyCalls[c].source

\* C28 (as claimed): the result a refresh call returns comes from an
\* underlying load that was started after the refresh call was made, also
\* when the refresh arrives while another load is in flight.
C28_RefreshLoadsAnew ==
  \A c \in 1..Len(legacyCalls) :
    (legacyCalls[c].op = "refreshData" /\ legacyCalls[c].pc = "returned") =>
      legacyCalls[c].fromLoad > legacyCalls[c].loadsBefore

\* The part of C28 the legacy service keeps: a refresh that arrives while no
\* load is in flight returns the result of a load of its own.
C28_RefreshWhileIdleLoadsAnew ==
  \A c \in 1..Len(legacyCalls) :
    (legacyCalls[c].op = "refreshData" /\ legacyCalls[c].pc = "returned"
       /\ legacyCalls[c].arrivedDuring = {}) =>
      /\ "load" \in DOMAIN legacyCalls[c]
      /\ legacyCalls[c].fromLoad = legacyCalls[c].load
      /\ legacyCalls[c].fromLoad > legacyCalls[c].loadsBefore

\* The configuration-aware service's refresh calls always return the result
\* of the load they started themselves.
C28_ServiceRefreshLoadsAnew ==
  \A c \in 1..Len(calls) :
    (calls[c].op \in {"refreshData", "refreshDataWithConfiguration"}
       /\ calls[c].pc = "returned") =>
      /\ "load" \in DOMAIN calls[c]
      /\ loads[calls[c].load].call = c
      /\ calls[c].load \notin calls[c].arrivedDuring

\* C29 (as claimed): the loading flag tracks the in-flight load exactly.
\* isDataLoading() is true in every state where an underlying load has begun
\* and not yet ended, and false in every state where none is in flight.
C29_FlagTracksLoad == isDataLoading <=> InFlight(loads) # {}

\* The legacy service, which starts no load while its flag is set, keeps the
\* flag equal to "a load is in flight".
C29_LegacyFlagTracksLoad == legacy.isLoading <=> InFlight(legacyLoads) # {}

\* C30 (as claimed): after switchConfiguration(id) succeeds, the next
\* refreshData(source) extracts with the configuration registered under id:
\* the mappingConfig of the result it returns is that configuration.
C30_RefreshUsesSwitchedConfiguration ==
  \A a \in 1..Len(calls) :
    ( /\ a + 1 <= Len(calls)
      /\ calls[a].op = "switchConfiguration"
      /\ calls[a].pc = "returned"
      /\ calls[a + 1].op = "refreshData"
      /\ calls[a + 1].pc = "returned" )
    => calls[a + 1].result.mappingConfig = configurations[calls[a].configurationId]

----------------------------------------------------------------------------
(* Further claims about the extraction engine                              *)

\* The subject's first layer-property value is the identifier of a subject
\* typed as layerClass whose display name resolves.
NamesDeclaredLayer(loader, subject) ==
  LET values == ValuesOf(loader, subject, loader.mapping.layerGrouping.layerProperty)
  IN /\ values # <<>>
     /\ "layerClass" \in DOMAIN loader.mapping.layerGrouping
     /\ values[1] \in LayerSubjects(loader)
     /\ LET names == ValuesOf(loader, values[1], PropertyFor(loader.mapping, "label"))
        IN names # <<>> /\ names[1] # ""

\* C31 (as claimed): for every extraction result, each non-empty layerKey that
\* pass B assigns to a relationship is a key of the layer map of pass C.
C31_LayerKeysAreDeclared ==
  (extraction.pc = "done" /\ ~extraction.result.threw) =>
    \A n \in 1..Len(extraction.result.data.triples) :
      extraction.result.data.triples[n].layer # ""
        => extraction.result.data.triples[n].layer
             \in DOMAIN extraction.result.data.layers

\* C31 (as amended): the layerKey of a relationship whose subject's first
\* layer-property value is the identifier of a subject typed as layerClass
\* with a resolved display name is a key of the layer map of pass C, when it
\* is not empty.
C31_DeclaredLayerKeysAgree ==
  (extraction.pc = "done" /\ ~extraction.result.threw) =>
    \A n \in 1..Len(extraction.result.data.triples) :
      LET triple == extraction.result.data.triples[n]
      IN (triple.layer # "" /\ NamesDeclaredLayer(extraction.loader, triple.subject))
           => triple.layer \in DOMAIN extraction.result.data.layers

\* Both relationships of the result belong to subjects of the labelled
\* universe ex/u1, and their layerKey u1 is the key of its layer.
C31_Witness ==
  /\ extraction.pc = "done"
  /\ ~extraction.result.threw
  /\ Len(extraction.result.data.triples) = 2
  /\ \A n \in 1..2 :
       /\ NamesDeclaredLayer(extraction.loader, extraction.result.data.triples[n].subject)
       /\ extraction.result.data.triples[n].layer = "u1"
  /\ DOMAIN extraction.result.data.layers = {"u1"}

\* C32: queryData and queryMultiverseData on a loader that holds no dataset
\* both fail with "No RDF data loaded" and return no data; on a loaded dataset
\* without statements they succeed with empty nodes, triples, layers and
\* sharedConnections.
C32_AbsentFailsEmptySucceeds ==
  extraction.pc = "done" =>
    /\ extraction.loader.dataset = Null =>
         /\ extraction.result.threw
         /\ extraction.result.error = "No RDF data loaded"
         /\ extraction.result.data = Null
    /\ extraction.loader.dataset = EmptyDataset =>
         /\ ~extraction.result.threw
         /\ extraction.result.data.nodes = <<>>
         /\ extraction.result.data.triples = <<>>
         /\ DOMAIN extraction.result.data.layers = {}
         /\ extraction.result.data.sharedConnections = <<>>

\* queryMultiverseData was called on a loader that holds no dataset.
C32_Witness ==
  /\ extraction.pc = "done"
  /\ extraction.entry = "queryMultiverseData"
  /\ extraction.loader.dataset = Null
  /\ extraction.result.threw

\* queryData was called on a loaded dataset without statements.
C32_EmptyWitness ==
  /\ extraction.pc = "done"
  /\ extraction.entry = "queryData"
  /\ extraction.loader.dataset = EmptyDataset
  /\ ~extraction.result.threw

\* The statements whose predicate is the rdfPredicate of the mapping's
\* crossLayerConnections, in dataset order.
ConnectionStatements(loader) ==
  SelectSeq([k \in 1..Len(QuadsOf(loader)) |-> k],
            LAMBDA k : QuadsOf(loader)[k].predicate
                         = loader.mapping.crossLayerConnections.rdfPredicate)

\* C33: pass D returns the empty list when the mapping has no
\* crossLayerConnections; otherwise sharedConnections has exactly one entry
\* {id: subject, connectTo: object} per statement with the rule's predicate,
\* whether or not subject and object are entities of the result.
C33_OneLinkPerStatement ==
  (extraction.pc = "done" /\ ~extraction.result.threw) =>
    IF "crossLayerConnections" \notin DOMAIN extraction.loader.mapping
      THEN extraction.result.data.sharedConnections = <<>>
      ELSE LET statements == ConnectionStatements(extraction.loader)
               connections == extraction.result.data.sharedConnections
           IN /\ Len(connections) = Len(statements)
              /\ \A n \in 1..Len(statements) :
                   LET quad == QuadsOf(extraction.loader)[statements[n]]
                   IN /\ connections[n].id = quad.subject
                      /\ connections[n].connectTo = quad.object

\* The result has two connections, and the target of one of them, ex:other,
\* is not the id of any entity of the result.
C33_Witness ==
  /\ extraction.pc = "done"
  /\ ~extraction.result.threw
  /\ "crossLayerConnections" \in DOMAIN extraction.loader.mapping
  /\ Len(extraction.result.data.sharedConnections) = 2
  /\ Len(extraction.result.data.nodes) > 0
  /\ \E n \in 1..2 :
       /\ extraction.result.data.sharedConnections[n].connectTo = "ex:other"
       /\ \A i \in 1..Len(extraction.result.data.nodes) :
            extraction.result.data.nodes[i].id # "ex:other"

\* The mapping has no crossLayerConnections and the result has no connection,
\* although the dataset has statements.
C33_UnsetWitness ==
  /\ extraction.pc = "done"
  /\ ~extraction.result.threw
  /\ "crossLayerConnections" \notin DOMAIN extraction.loader.mapping
  /\ QuadsOf(extraction.loader) # <<>>
  /\ extraction.result.data.sharedConnections = <<>>

----------------------------------------------------------------------------
(* Progress of the callers that wait for a load                            *)

IsWaiting(c) == c <= Len(legacyCalls) /\ legacyCalls[c].pc = "waiting"

HasSettled(c) == c <= Len(legacyCalls) /\ legacyCalls[c].pc \in {"returned", "threw"}

\* C35 (as claimed): when every load ends, every call of the legacy loadData
\* that found a load in flight and waits eventually returns a result or
\* throws; no call polls isLoading forever.
C35_WaitingCallsSettle ==
  \A c \in 1..MaxLegacyCalls : IsWaiting(c) ~> HasSettled(c)

\* A call waits while the load it found in flight has ended and a load that
\* began after the call arrived is in flight.
C35_MissedWindow ==
  \E c \in 1..Len(legacyCalls) :
    /\ IsWaiting(c)
    /\ legacy.isLoading
    /\ \A j \in legacyCalls[c].arrivedDuring :
         j <= Len(legacyLoads) /\ legacyLoads[j].state = "ended"
    /\ \E j \in InFlight(legacyLoads) : j > legacyCalls[c].loadsBefore

----------------------------------------------------------------------------
(* Further claims about the registry                                       *)

\* validateMapping returns the empty list for the mapping.
PassesValidation(mapping) ==
  /\ mapping # Null
  /\ ~validateMapping(mapping).threw
  /\ validateMapping(mapping).errors = <<>>

\* C36: in every reachable state of the manager, validateMapping returns the
\* empty list for every configuration in the map, and so for the
\* configuration getActiveConfiguration resolves.
C36_StoredConfigurationsAreValid ==
  /\ \A id \in listConfigurationIds : PassesValidation(configurations[id])
  /\ PassesValidation(getActiveConfiguration)

\* A configuration is stored under "test" after registerConfiguration has
\* thrown for an invalid mapping offered under that id.
C36_Witness ==
  /\ last.op = "register"
  /\ last.outcome = "throw"
  /\ last.id = "test"
  /\ MapHas(configurations, "test")

\* C36, in the service: the mapping of the loader is one that validateMapping
\* accepts whenever a load is in flight.
C36_LoaderMappingIsValid ==
  InFlight(loads) # {} => PassesValidation(rdfLoader.mapping)

\* C37: registerConfiguration(id, mapping) with a valid mapping and an id that
\* is registered, 'default' included, stores the mapping under id in place of
\* the earlier one, leaves the registered ids, the other configurations and
\* the active id as they were, and getActiveConfiguration returns the new
\* mapping if id is the active id.
C37_RegisterReplaces ==
  ( /\ last.op = "register"
    /\ PassesValidation(last.mapping)
    /\ MapHas(last.pre.configurations, last.id) )
  => /\ last.outcome = "ok"
     /\ configurations[last.id] = last.mapping
     /\ listConfigurationIds = DOMAIN last.pre.configurations
     /\ \A id \in listConfigurationIds \ {last.id} :
          configurations[id] = last.pre.configurations[id]
     /\ activeConfigurationId = last.pre.activeConfigurationId
     /\ activeConfigurationId = last.id => getActiveConfiguration = last.mapping

\* The test mapping has been registered under 'default', the active id, in
\* place of another configuration, and getActiveConfiguration returns it.
C37_Witness ==
  /\ last.op = "register"
  /\ last.outcome = "ok"
  /\ last.id = "default"
  /\ activeConfigurationId = "default"
  /\ last.pre.configurations["default"] # last.mapping
  /\ getActiveConfiguration = testMapping

----------------------------------------------------------------------------
(* Entities of a subject with several types                                *)

\* The typeIds the mapping gives to the subject's type statements that name
\* a configured class, in dataset order.
TypeIdsOf(loader, subject) ==
  LET quads == QuadsOf(loader)
      types == entityTypeMap(loader.mapping)
      hits == SelectSeq([k \in 1..Len(quads) |-> k],
                LAMBDA k : /\ quads[k].subject = subject
                           /\ quads[k].predicate = "rdf:type"
                           /\ quads[k].object \in DOMAIN types)
  IN [n \in 1..Len(hits) |-> types[quads[hits[n]].object]]

\* The types of the result's entities with the id, in result order.
EntityTypesOf(result, id) ==
  LET hits == SelectSeq([i \in 1..Len(result.data.nodes) |-> i],
                LAMBDA i : result.data.nodes[i].id = id)
  IN [n \in 1..Len(hits) |-> result.data.nodes[hits[n]].type]

\* C38: pass A builds one entity per type statement, not per subject: the
\* entities with a subject's id are as many as the subject's type statements
\* that name a configured class, with the typeIds of these classes, when the
\* subject passes materialization (and none when it does not); a subject typed
\* with two configured classes yields two entities with one id.
C38_OneEntityPerTypeStatement ==
  (extraction.pc = "done" /\ ~extraction.result.threw) =>
    \A subject \in TypedSubjects(extraction.loader) :
      LET built == EntityTypesOf(extraction.result, subject)
      IN /\ built = <<>> \/ built = TypeIdsOf(extraction.loader, subject)
         /\ Resolves(extraction.loader, subject)
              => built = TypeIdsOf(extraction.loader, subject)

\* The character is also typed as a movie, and the result has two entities
\* with its id, of type character and of type movie.
C38_Witness ==
  /\ extraction.pc = "done"
  /\ ~extraction.result.threw
  /\ Resolves(extraction.loader, "ex:hero")
  /\ TypeIdsOf(extraction.loader, "ex:hero") = <<"character", "movie">>
  /\ EntityTypesOf(extraction.result, "ex:hero") = <<"character", "movie">>

----------------------------------------------------------------------------
(* The cache after a failed load                                           *)

\* Call c's load fails in this step.
LoadFails(c) ==
  /\ c <= Len(calls)
  /\ calls[c].pc = "loading"
  /\ calls'[c].pc = "threw"

\* A call starts a load in this step.
LoadStarts ==
  /\ Len(calls') = Len(calls) + 1
  /\ calls'[Len(calls')].pc = "loading"

\* Call c's load returns its result in this step.
LoadReturns(c) ==
  /\ c <= Len(calls)
  /\ calls[c].pc = "loading"
  /\ calls'[c].pc = "returned"

\* No other load was in flight when call c arrived, and none has started
\* since.
Alone(c) == calls[c].arrivedDuring = {} /\ calls[c].load = Len(loads)

\* C39 (as claimed): a configuration-aware load clears the cache when it
\* starts; after a load that fails (load error, no data loaded, validation
\* failure) getCachedData() is null; and the cache becomes non-empty only in
\* the step in which a load returns its result.
C39_FailedLoadLeavesCacheEmpty ==
  [][ /\ LoadStarts => getCachedData' = Null
      /\ \A c \in 1..MaxCalls : LoadFails(c) => getCachedData' = Null
      /\ (getCachedData' # Null /\ getCachedData' # getCachedData)
           => \E c \in 1..MaxCalls :
                LoadReturns(c) /\ getCachedData' = calls'[c].result ]_vars

\* The parts of C39 that hold: a starting load clears the cache, the cache
\* is filled only by a load that returns, and a load that fails with no other
\* load overlapping it leaves getCachedData() null.
C39_HoldsWithoutOverlap ==
  [][ /\ LoadStarts => getCachedData' = Null
      /\ \A c \in 1..MaxCalls :
           (LoadFails(c) /\ Alone(c)) => getCachedData' = Null
      /\ (getCachedData' # Null /\ getCachedData' # getCachedData)
           => \E c \in 1..MaxCalls :
                LoadReturns(c) /\ getCachedData' = calls'[c].result ]_vars

\* A load that started after another load had cached its result has failed
\* alone, and the cache is empty.
C39_ClearedWitness ==
  \E a, c \in 1..Len(calls) :
    /\ a < c
    /\ calls[a].pc = "returned" /\ "result" \in DOMAIN calls[a]
    /\ calls[c].pc = "threw" /\ "load" \in DOMAIN calls[c]
    /\ calls[c].arrivedDuring = {}
    /\ calls[c].load = Len(loads)
    /\ getCachedData = Null

====
